---------------------------- MODULE Spec2Model ----------------------------
(***************************************************************************)
(* A model of quest-mirrorer: the message-to-page segmenter (parsing.py),  *)
(* the media cache and the publish pipeline (sitegen.py) and the client    *)
(* event handlers (discord_core.py).                                       *)
(*                                                                         *)
(* Text is modelled by TLA+ strings; TLC evaluates Len, Head, Tail, SubSeq *)
(* and \o on them, so the string functions of the source are computed      *)
(* character by character.  A Python None is the empty tuple <<>> and a    *)
(* present optional value x is <<x>>.                                      *)
(***************************************************************************)
EXTENDS Integers, Sequences, FiniteSets, TLC

VARIABLES
    \* ---- segmenter (parsing.parse_pages_from_messages) ----
    allowed_user_ids,    \* the author allow-list loaded from USER_IDS
    shill_replacements,  \* the (pattern, replacement) list loaded from SHILLWORDS
    messages,            \* the messages consumed so far, in order
    seg_before,          \* the scanner state before the last consumed message
    seg,                 \* the scanner state: [pages, current]
    seg_result,          \* <<>> while scanning, <<pages>> once the function returned
    \* ---- media cache (sitegen.rewrite_*_to_local_cached) ----
    media_files,         \* the media files of the output directory: name -> content
    images_cache,        \* the mapping file .cache/images.json
    videos_cache,        \* the mapping file .cache/videos.json
    calls,               \* log of the resolve calls made so far (what each was
                         \* given and what it returned)
    \* ---- publish pipeline (sitegen.regenerate_site_from_channel) ----
    config,              \* PAGE_OFFSET, MANUAL_COMMAND_SHIFT and its start page
    history,             \* the message history of the old and of the new channel
    html_files,          \* the page files of the output directory: name -> markup
    runs,                \* log of the regenerate runs made so far
    \* ---- client (discord_core.MirrorClient) ----
    client,              \* exit_after_regen, and whether close() was called
    tasks,               \* the event handler coroutines started so far
    \* ---- file replacement (sitegen.atomic_write) ----
    disk,                \* the files a reader of the output directory can open
    writer,              \* where the call of atomic_write in progress stands
    reader,              \* what the last reader of a page file was given
    \* ---- feed (feeds.render_atom and the sort of its items) ----
    atom_items,          \* the (ts, num, page) items of the feed, as last ordered
    atom_pages,          \* the page list handed to render_atom
    atom                 \* <<>>, or what the last call on the feed code returned

segVars == <<allowed_user_ids, shill_replacements, messages, seg_before, seg, seg_result>>
cacheVars == <<media_files, images_cache, videos_cache, calls>>

pubVars == <<config, history, html_files, runs>>

clientVars == <<client, tasks>>

writeVars == <<disk, writer, reader>>

feedVars == <<atom_items, atom_pages, atom>>

vars == <<segVars, cacheVars, pubVars, clientVars, writeVars, feedVars>>

\* what the steps of each machine leave alone
notSegVars == <<cacheVars, pubVars, clientVars, writeVars, feedVars>>
notCacheVars == <<segVars, pubVars, clientVars, writeVars, feedVars>>
notPubVars ==
    <<messages, seg_before, seg, seg_result, calls, clientVars, writeVars, feedVars>>
notClientVars ==
    <<allowed_user_ids, shill_replacements, messages, seg_before, seg, seg_result, calls,
      config, writeVars, feedVars>>
notWriteVars == <<segVars, cacheVars, pubVars, clientVars, feedVars>>
notFeedVars == <<segVars, cacheVars, pubVars, clientVars, writeVars>>

None == <<>>
Some(x) == <<x>>
IsNone(o) == o = <<>>
Val(o) == o[1]

\* the defaults of the configuration (sitegen.py lines 32-33, page_offset = 0)
DefaultConfig ==
    [page_offset |-> 0, manual_command_shift |-> 0, manual_command_shift_start_page |-> 92]

\* no run yet, nothing published, both channels empty
PubIdle ==
    /\ config = DefaultConfig
    /\ history = [c \in {"old", "new"} |-> <<>>]
    /\ html_files = <<>>
    /\ runs = <<>>

\* no event handler has started
ClientIdle ==
    /\ client = [exit_after_regen |-> FALSE, closed |-> FALSE]
    /\ tasks = <<>>

\* no call of atomic_write was made and nobody read a file
WriteIdle ==
    /\ disk = <<>>
    /\ writer = [pc |-> "idle", calls |-> 0]
    /\ reader = <<>>

\* the feed code was not called
FeedIdle ==
    /\ atom_items = <<>>
    /\ atom_pages = <<>>
    /\ atom = <<>>

-----------------------------------------------------------------------------
(* Python string functions, on TLA+ strings.                               *)

Char(s, i) == SubSeq(s, i, i)

UpperAlpha == "ABCDEFGHIJKLMNOPQRSTUVWXYZ"
LowerAlpha == "abcdefghijklmnopqrstuvwxyz"
Digits == "0123456789"

InStr(c, alphabet) == \E i \in 1..Len(alphabet) : Char(alphabet, i) = c

LowerChar(c) ==
    IF InStr(c, UpperAlpha)
    THEN Char(LowerAlpha, CHOOSE i \in 1..Len(UpperAlpha) : Char(UpperAlpha, i) = c)
    ELSE c

RECURSIVE Lower(_)
Lower(s) == IF s = "" THEN "" ELSE LowerChar(Head(s)) \o Lower(Tail(s))

\* str.strip() removes leading and trailing whitespace
IsSpace(c) == c \in {" ", "\n", "\r", "\t"}

RECURSIVE LStrip(_)
LStrip(s) == IF s = "" THEN "" ELSE IF IsSpace(Head(s)) THEN LStrip(Tail(s)) ELSE s

RECURSIVE RStrip(_)
RStrip(s) ==
    IF s = "" THEN ""
    ELSE IF IsSpace(Char(s, Len(s))) THEN RStrip(SubSeq(s, 1, Len(s) - 1)) ELSE s

Strip(s) == RStrip(LStrip(s))

StartsWith(s, p) == Len(s) >= Len(p) /\ SubSeq(s, 1, Len(p)) = p
EndsWith(s, p) == Len(s) >= Len(p) /\ SubSeq(s, Len(s) - Len(p) + 1, Len(s)) = p
DropFirst(s, n) == SubSeq(s, n + 1, Len(s))

\* str.replace(old, new) and re.sub(re.escape(old), new, s): leftmost,
\* non-overlapping occurrences; ci = TRUE compares case-insensitively
RECURSIVE ReplaceAll(_, _, _, _)
ReplaceAll(s, old, new, ci) ==
    IF s = "" \/ old = "" THEN s
    ELSE IF Len(s) >= Len(old)
            /\ (IF ci THEN Lower(SubSeq(s, 1, Len(old))) = Lower(old)
                      ELSE SubSeq(s, 1, Len(old)) = old)
         THEN new \o ReplaceAll(DropFirst(s, Len(old)), old, new, ci)
         ELSE Head(s) \o ReplaceAll(Tail(s), old, new, ci)

\* str.split(sep) for a one-character separator: a sequence of strings
RECURSIVE SplitFrom(_, _, _)
SplitFrom(s, sep, acc) ==
    IF s = "" THEN <<acc>>
    ELSE IF Head(s) = sep THEN <<acc>> \o SplitFrom(Tail(s), sep, "")
         ELSE SplitFrom(Tail(s), sep, acc \o Head(s))

Split(s, sep) == SplitFrom(s, sep, "")

\* " ".join(parts)
RECURSIVE JoinSpace(_)
JoinSpace(parts) ==
    IF parts = <<>> THEN ""
    ELSE IF Len(parts) = 1 THEN parts[1]
         ELSE parts[1] \o " " \o JoinSpace(Tail(parts))

-----------------------------------------------------------------------------
(* parsing.py: classification of attachments                                *)

image_exts == {".png", ".jpg", ".jpeg", ".gif", ".webp", ".bmp", ".tiff"}
video_exts == {".mp4", ".webm", ".mov", ".m4v", ".ogv", ".ogg", ".avi", ".mkv"}

\* an attachment is [url, content_type, filename]; "" stands for a missing
\* content type or filename (the source reads both through `x or ""`)
is_image_attachment(att) ==
    \/ StartsWith(Lower(att.content_type), "image/")
    \/ \E ext \in image_exts : EndsWith(Lower(att.filename), ext)

is_video_attachment(att) ==
    \/ StartsWith(Lower(att.content_type), "video/")
    \/ \E ext \in video_exts : EndsWith(Lower(att.filename), ext)

-----------------------------------------------------------------------------
(* parsing.py: text redaction and paragraph normalisation                   *)

RECURSIVE _filter_shill_words(_, _)
_filter_shill_words(text, replacements) ==
    IF text = "" \/ replacements = <<>> THEN text
    ELSE _filter_shill_words(
            ReplaceAll(text, replacements[1][1], replacements[1][2], TRUE),
            Tail(replacements))

IsWordChar(c) == InStr(c, UpperAlpha) \/ InStr(c, LowerAlpha) \/ InStr(c, Digits) \/ c = "_"

\* \bword\b occurs in s (case-insensitively): an occurrence with no word
\* character right before it and none right after it
HasWord(s, word) ==
    \E i \in 1..(Len(s) - Len(word) + 1) :
        /\ Lower(SubSeq(s, i, i + Len(word) - 1)) = word
        /\ (i = 1 \/ ~IsWordChar(Char(s, i - 1)))
        /\ (i + Len(word) - 1 = Len(s) \/ ~IsWordChar(Char(s, i + Len(word))))

\* _END_UPDATE_BRACKET_RE.match(b) for a stripped block b:
\*   ^\[\s*(?=[^\]]*\bend\b)(?=[^\]]*\bupdate(?:s)?\b)[^\]]*\]\s*$
\* "[" first, the first "]" last, and between them the words end and update(s).
\* The look-aheads and \b read the characters of b itself, so the words are
\* searched in b up to (not including) its closing bracket.
_END_UPDATE_BRACKET_RE(b) ==
    /\ Len(b) >= 2
    /\ Head(b) = "["
    /\ Char(b, Len(b)) = "]"
    /\ \A i \in 2..(Len(b) - 1) : Char(b, i) # "]"
    /\ HasWord(b, "end")
    /\ (HasWord(b, "update") \/ HasWord(b, "updates"))

\* the loop of normalize_paragraphs over the lines: st = [blocks, buf]
RECURSIVE NormalizeLines(_, _, _)
NormalizeLines(lines, blocks, buf) ==
    IF lines = <<>>
    THEN IF buf # <<>> THEN Append(blocks, Strip(JoinSpace(buf))) ELSE blocks
    ELSE LET s == Strip(lines[1])
         IN IF s = "~" \/ s = ""
            THEN IF buf # <<>>
                 THEN NormalizeLines(Tail(lines), Append(blocks, Strip(JoinSpace(buf))), <<>>)
                 ELSE NormalizeLines(Tail(lines), blocks, buf)
            ELSE IF StartsWith(s, ">")
                 THEN NormalizeLines(Tail(lines), blocks, buf)
                 ELSE NormalizeLines(Tail(lines), blocks, Append(buf, s))

\* a variant that keeps every block
KeepAllBlocks(blocks) == blocks

RECURSIVE KeepBlocks(_)
KeepBlocks(blocks) ==
    IF blocks = <<>> THEN <<>>
    ELSE (IF blocks[1] # "" /\ ~_END_UPDATE_BRACKET_RE(blocks[1]) THEN <<blocks[1]>> ELSE <<>>)
         \o KeepBlocks(Tail(blocks))

normalize_paragraphs(text) ==
    IF text = "" THEN <<>>
    ELSE LET t == ReplaceAll(ReplaceAll(text, "\r\n", "\n", FALSE), "\r", "\n", FALSE)
         IN KeepBlocks(NormalizeLines(Split(t, "\n"), <<>>, <<>>))

-----------------------------------------------------------------------------
(* parsing.py: parse_pages_from_messages                                    *)

EmptyPage ==
    [images |-> <<>>, videos |-> <<>>, paragraphs |-> <<>>,
     command_text |-> None, last_ts |-> None]

SegInit == [pages |-> <<>>, current |-> EmptyPage]

\* start_new(): the current page is appended and a fresh one begun
start_new(st) == [pages |-> Append(st.pages, st.current), current |-> EmptyPage]

\* a variant in which the first command-style line wins
RECURSIVE CommandOfLinesFirst(_, _)
CommandOfLinesFirst(lines, cmd) ==
    IF lines = <<>> \/ ~IsNone(cmd) THEN cmd
    ELSE IF StartsWith(Strip(lines[1]), ">") /\ Len(Strip(lines[1])) > 1
         THEN Some(Strip(DropFirst(Strip(lines[1]), 1)))
         ELSE IF StartsWith(Lower(Strip(lines[1])), "==>") /\ Len(Strip(lines[1])) > 3
              THEN Some(Strip(DropFirst(Strip(lines[1]), 3)))
              ELSE CommandOfLinesFirst(Tail(lines), cmd)

\* the command of a (redacted, stripped) text: the last command-style line wins
RECURSIVE CommandOfLines(_, _)
CommandOfLines(lines, cmd) ==
    IF lines = <<>> THEN cmd
    ELSE LET s == Strip(lines[1])
         IN IF StartsWith(s, ">") /\ Len(s) > 1
            THEN CommandOfLines(Tail(lines), Some(Strip(DropFirst(s, 1))))
            ELSE IF StartsWith(Lower(s), "==>") /\ Len(s) > 3
                 THEN CommandOfLines(Tail(lines), Some(Strip(DropFirst(s, 3))))
                 ELSE CommandOfLines(Tail(lines), cmd)

ExtractCommand(t) ==
    IF t = "" THEN None
    ELSE CommandOfLines(Split(ReplaceAll(t, "\r\n", "\n", FALSE), "\n"), None)

current_has_content(page) ==
    page.images # <<>> \/ page.videos # <<>> \/ page.paragraphs # <<>>

\* a variant that sets the command on the current page and never breaks it
ApplyCommandInPlace(st, cmd, created_at) ==
    IF IsNone(cmd) THEN st
    ELSE [st EXCEPT !.current.command_text = cmd, !.current.last_ts = Some(created_at)]

\* a variant that breaks the page first and sets the command on the new page
ApplyCommandOnNewPage(st, cmd, created_at) ==
    IF IsNone(cmd) THEN st
    ELSE LET st1 == IF current_has_content(st.current) \/ ~IsNone(st.current.command_text)
                    THEN start_new(st) ELSE st
         IN [st1 EXCEPT !.current.command_text = cmd,
                        !.current.last_ts = Some(created_at)]

\* lines 227-240: a command ends a page that has content; on a page without
\* content it is set in place, after emitting a page that already has one
ApplyCommand(st, cmd, created_at) ==
    IF IsNone(cmd) THEN st
    ELSE IF current_has_content(st.current)
         THEN start_new([st EXCEPT !.current.command_text = cmd,
                                   !.current.last_ts = Some(created_at)])
         ELSE LET st1 == IF ~IsNone(st.current.command_text) THEN start_new(st) ELSE st
              IN [st1 EXCEPT !.current.command_text = cmd,
                             !.current.last_ts = Some(created_at)]

\* lines 242-246
ApplyParagraphs(st, t, created_at) ==
    LET paras == IF t = "" THEN <<>> ELSE normalize_paragraphs(t)
    IN IF paras # <<>>
       THEN [st EXCEPT !.current.paragraphs = @ \o paras,
                       !.current.last_ts = Some(created_at)]
       ELSE st

\* lines 250-257
RECURSIVE ApplyAttachments(_, _, _)
ApplyAttachments(st, atts, created_at) ==
    IF atts = <<>> THEN st
    ELSE LET att == atts[1]
             st1 == IF is_image_attachment(att)
                    THEN [st EXCEPT !.current.images = Append(@, att.url),
                                    !.current.last_ts = Some(created_at)]
                    ELSE IF is_video_attachment(att)
                         THEN [st EXCEPT !.current.videos = Append(@, att.url),
                                         !.current.last_ts = Some(created_at)]
                         ELSE st
         IN ApplyAttachments(st1, Tail(atts), created_at)

\* lines 259-270: an embed is [image, thumbnail, video], "" for a missing URL
RECURSIVE ApplyEmbeds(_, _, _)
ApplyEmbeds(st, embeds, created_at) ==
    IF embeds = <<>> THEN st
    ELSE LET e == embeds[1]
             st1 == IF e.image # ""
                    THEN [st EXCEPT !.current.images = Append(@, e.image),
                                    !.current.last_ts = Some(created_at)]
                    ELSE st
             st2 == IF e.thumbnail # ""
                    THEN [st1 EXCEPT !.current.images = Append(@, e.thumbnail),
                                     !.current.last_ts = Some(created_at)]
                    ELSE st1
             st3 == IF e.video # ""
                    THEN [st2 EXCEPT !.current.videos = Append(@, e.video),
                                     !.current.last_ts = Some(created_at)]
                    ELSE st2
         IN ApplyEmbeds(st3, Tail(embeds), created_at)

\* the redacted, stripped text of a message (line 210)
MessageText(m, replacements) ==
    IF m.content # "" THEN Strip(_filter_shill_words(m.content, replacements)) ELSE ""

\* a variant without the author filter
ParseStepNoFilter(st, m, replacements, allowed) ==
    ApplyEmbeds(
        ApplyAttachments(
            ApplyParagraphs(
                ApplyCommand(st, ExtractCommand(MessageText(m, replacements)), m.created_at),
                MessageText(m, replacements), m.created_at),
            m.attachments, m.created_at),
        m.embeds, m.created_at)

\* a variant that reads the attachments before the command
ParseStepMediaFirst(st, m, replacements, allowed) ==
    IF allowed # {} /\ m.author \notin allowed THEN st
    ELSE LET t == MessageText(m, replacements)
             st1 == ApplyAttachments(st, m.attachments, m.created_at)
             st2 == ApplyCommand(st1, ExtractCommand(t), m.created_at)
             st3 == ApplyParagraphs(st2, t, m.created_at)
         IN ApplyEmbeds(st3, m.embeds, m.created_at)

\* a variant that adds the paragraphs before it applies the command
ParseStepParagraphsFirst(st, m, replacements, allowed) ==
    IF allowed # {} /\ m.author \notin allowed THEN st
    ELSE LET t == MessageText(m, replacements)
             st1 == ApplyParagraphs(st, t, m.created_at)
             st2 == ApplyCommand(st1, ExtractCommand(t), m.created_at)
             st3 == ApplyAttachments(st2, m.attachments, m.created_at)
         IN ApplyEmbeds(st3, m.embeds, m.created_at)

\* one iteration of the loop at line 204
ParseStep(st, m, replacements, allowed) ==
    IF allowed # {} /\ m.author \notin allowed THEN st
    ELSE LET t == MessageText(m, replacements)
             st1 == ApplyCommand(st, ExtractCommand(t), m.created_at)
             st2 == ApplyParagraphs(st1, t, m.created_at)
             st3 == ApplyAttachments(st2, m.attachments, m.created_at)
         IN ApplyEmbeds(st3, m.embeds, m.created_at)

\* a variant that returns the accumulator whatever it holds
ParseFinishAlways(st) == Append(st.pages, st.current)

\* lines 272-280
ParseFinish(st) ==
    IF \/ st.current.images # <<>>
       \/ st.current.videos # <<>>
       \/ st.current.paragraphs # <<>>
       \/ (~IsNone(st.current.command_text) /\ Val(st.current.command_text) # "")
    THEN Append(st.pages, st.current)
    ELSE st.pages

\* the loop at line 204 (st1 names the state after the first message)
RECURSIVE ParseLoop(_, _, _, _)
ParseLoop(st, msgs, replacements, allowed) ==
    IF msgs = <<>> THEN st
    ELSE CHOOSE r \in { ParseLoop(st1, Tail(msgs), replacements, allowed)
                        : st1 \in {ParseStep(st, msgs[1], replacements, allowed)} } : TRUE

parse_pages_from_messages(msgs, replacements, allowed) ==
    ParseFinish(ParseLoop(SegInit, msgs, replacements, allowed))

-----------------------------------------------------------------------------
(* urllib.parse and pathlib, as far as the source uses them                 *)

\* the first index of s holding one of the characters, 0 when there is none
RECURSIVE IndexFrom(_, _, _)
IndexFrom(s, chars, i) ==
    IF i > Len(s) THEN 0
    ELSE IF Char(s, i) \in chars THEN i ELSE IndexFrom(s, chars, i + 1)

IndexOfAny(s, chars) == IndexFrom(s, chars, 1)

\* the last index of s holding the character, 0 when there is none
RECURSIVE LastIndexOf(_, _)
LastIndexOf(s, c) ==
    IF s = "" THEN 0
    ELSE IF Char(s, Len(s)) = c THEN Len(s) ELSE LastIndexOf(SubSeq(s, 1, Len(s) - 1), c)

IsSchemeChar(c) ==
    InStr(c, UpperAlpha) \/ InStr(c, LowerAlpha) \/ InStr(c, Digits) \/ c \in {"+", "-", "."}

\* s before its index i (all of s when i = 0) and s after its index i
CutBefore(s, i) == IF i = 0 THEN s ELSE SubSeq(s, 1, i - 1)
CutAfter(s, i) == IF i = 0 THEN "" ELSE DropFirst(s, i)

\* a URL has a scheme when a colon follows a letter and scheme characters
HasScheme(url, colon) ==
    /\ colon > 1
    /\ (InStr(Head(url), UpperAlpha) \/ InStr(Head(url), LowerAlpha))
    /\ \A i \in 1..(colon - 1) : IsSchemeChar(Char(url, i))

\* the path, query and fragment of what follows the network location
SplitPath(scheme, netloc, rest) ==
    [scheme |-> scheme, netloc |-> netloc,
     path |-> CutBefore(rest, IndexOfAny(rest, {"?", "#"})),
     query |-> CutAfter(CutBefore(rest, IndexOfAny(rest, {"#"})),
                        IndexOfAny(CutBefore(rest, IndexOfAny(rest, {"#"})), {"?"})),
     fragment |-> CutAfter(rest, IndexOfAny(rest, {"#"}))]

\* the network location of what follows "//"
SplitNetloc(scheme, after) ==
    IF IndexOfAny(after, {"/", "?", "#"}) = 0
    THEN SplitPath(scheme, after, "")
    ELSE SplitPath(scheme, CutBefore(after, IndexOfAny(after, {"/", "?", "#"})),
                   DropFirst(after, IndexOfAny(after, {"/", "?", "#"}) - 1))

SplitAfterScheme(scheme, rest) ==
    IF StartsWith(rest, "//") THEN SplitNetloc(scheme, DropFirst(rest, 2))
    ELSE SplitPath(scheme, "", rest)

\* urlsplit(url): [scheme, netloc, path, query, fragment]
urlsplit(url) ==
    IF HasScheme(url, IndexOfAny(url, {":"}))
    THEN SplitAfterScheme(Lower(CutBefore(url, IndexOfAny(url, {":"}))),
                          CutAfter(url, IndexOfAny(url, {":"})))
    ELSE SplitAfterScheme("", url)

\* urlunsplit of (scheme, netloc, path, "", "")
urlunsplit(scheme, netloc, path) ==
    LET withNet == IF netloc # ""
                   THEN "//" \o netloc \o (IF path # "" /\ Head(path) # "/" THEN "/" ELSE "") \o path
                   ELSE path
    IN IF scheme # "" THEN scheme \o ":" \o withNet ELSE withNet

\* Path(path).suffix: from the last dot of the last component, when that dot
\* is neither its first nor its last character
PathSuffix(path) ==
    LET slash == LastIndexOf(path, "/")
        name == DropFirst(path, slash)
        dot == LastIndexOf(name, ".")
    IN IF dot > 1 /\ dot < Len(name) THEN DropFirst(name, dot - 1) ELSE ""

\* str(n) for n >= 0
RECURSIVE IntToStr(_)
IntToStr(n) ==
    IF n < 10 THEN Char(Digits, n + 1)
    ELSE IntToStr(n \div 10) \o Char(Digits, (n % 10) + 1)

-----------------------------------------------------------------------------
(* sitegen.py and parsing.py: the media cache                               *)

\* sitegen._canonical_media_key
_canonical_media_key(url) ==
    LET s == urlsplit(url)
        host == Lower(s.netloc)
    IN IF \/ EndsWith(host, "discordapp.net")
          \/ EndsWith(host, "discordapp.com")
          \/ EndsWith(host, "discord.com")
       THEN urlunsplit(s.scheme, s.netloc, s.path)
       ELSE url

\* mimetypes.guess_extension for the content types the model's responses carry
\* (None is "")
MimeExtension(content_type) ==
    CASE content_type = "image/png" -> ".png"
      [] content_type = "image/jpeg" -> ".jpg"
      [] content_type = "image/gif" -> ".gif"
      [] content_type = "video/mp4" -> ".mp4"
      [] content_type = "text/html" -> ".html"
      [] OTHER -> ""

\* parsing.guess_ext; content_type "" is a missing header
guess_ext(url, content_type) ==
    LET ext == Lower(PathSuffix(urlsplit(url).path))
        semi == IndexOfAny(content_type, {";"})
        mime == Strip(IF semi = 0 THEN content_type ELSE SubSeq(content_type, 1, semi - 1))
        ext2 == MimeExtension(mime)
    IN IF ext \in image_exts \/ ext \in video_exts THEN ext
       ELSE IF content_type # "" /\ ext2 # ""
            THEN (IF ext2 = ".jpe" THEN ".jpg" ELSE ext2)
            ELSE ".bin"

\* The output directory's media files: a function from file name to content.
\* A content is [asset, bytes, whole]: the asset whose bytes were streamed
\* into the file, how many of them, and whether that was the whole body.
FileExists(files, name) == name \in DOMAIN files
WriteFile(files, name, content) ==
    [n \in DOMAIN files \cup {name} |-> IF n = name THEN content ELSE files[n]]
Unlink(files, name) == [n \in DOMAIN files \ {name} |-> files[n]]

\* The server's answer to one GET.  kind "refused" is a connection error or a
\* non-2xx status (requests.get / raise_for_status raise); kind "body" streams
\* `size` bytes, or raises after `size` bytes when `breaks` is set.
Refused == [kind |-> "refused", content_type |-> "", size |-> 0, breaks |-> FALSE]
Body(content_type, size, breaks) ==
    [kind |-> "body", content_type |-> content_type, size |-> size, breaks |-> breaks]

\* a variant of the chunk loop that never looks at the limit
StreamChunksNoLimit(files, dest, asset, resp, limit_bytes, written) ==
    [ok |-> ~resp.breaks,
     files |-> WriteFile(files, dest, [asset |-> asset, bytes |-> resp.size,
                                       whole |-> ~resp.breaks])]

\* the chunk loop of download_image (lines 114-126) from `written` bytes on,
\* one byte per chunk: [ok, files]
RECURSIVE StreamChunks(_, _, _, _, _, _)
StreamChunks(files, dest, asset, resp, limit_bytes, written) ==
    IF written = resp.size
    THEN \* the iterator is exhausted, or raises (the file is closed and stays)
         [ok |-> ~resp.breaks, files |-> files]
    ELSE IF written + 1 > limit_bytes
         THEN [ok |-> FALSE, files |-> Unlink(files, dest)]
         ELSE StreamChunks(
                 WriteFile(files, dest,
                           [asset |-> asset, bytes |-> written + 1,
                            whole |-> (written + 1 = resp.size /\ ~resp.breaks)]),
                 dest, asset, resp, limit_bytes, written + 1)

\* parsing.download_image(url, dest, max_mb) against the answer resp:
\* [ok, files, dest], dest being the file it opened, if it opened one
download_image(files, url, base, limit_bytes, resp) ==
    IF urlsplit(url).scheme \notin {"http", "https"}
    THEN [ok |-> FALSE, files |-> files, dest |-> None]
    ELSE IF resp.kind = "refused"
         THEN [ok |-> FALSE, files |-> files, dest |-> None]
         ELSE LET dest == base \o guess_ext(url, resp.content_type)
                  opened == WriteFile(files, dest,
                                      [asset |-> _canonical_media_key(url), bytes |-> 0,
                                       whole |-> (resp.size = 0 /\ ~resp.breaks)])
                  streamed == StreamChunks(opened, dest, _canonical_media_key(url), resp,
                                           limit_bytes, 0)
              IN [ok |-> streamed.ok, files |-> streamed.files, dest |-> Some(dest)]

\* The cache mapping file (.cache/images.json, .cache/videos.json):
\*   kind "absent"    no file
\*   kind "object"    a JSON object, `map` its key -> file name mapping
\*   kind "malformed" not JSON, or not readable
\*   kind "array"     valid JSON that is not an object, such as []
AbsentCache == [kind |-> "absent", map |-> <<>>]
ObjectCache(map) == [kind |-> "object", map |-> map]
MalformedCache == [kind |-> "malformed", map |-> <<>>]
ArrayCache == [kind |-> "array", map |-> <<>>]

\* sitegen._load_cache: {} when the file is missing or json.loads raises,
\* otherwise whatever value the JSON text denotes (for kind "array" a list,
\* which has no entries)
_load_cache(cachefile) == IF cachefile.kind = "object" THEN cachefile.map ELSE <<>>

\* the value _load_cache returns is a dict
LoadsDict(cachefile) == cachefile.kind # "array"

\* sitegen._save_cache
_save_cache(data) == ObjectCache(data)

\* a variant that forgets the new mapping
CachePutNothing(cache, key, name) == cache

\* a variant that keeps only the new mapping
CachePutOnly(cache, key, name) == [k \in {key} |-> name]

CacheGet(cache, key) == IF key \in DOMAIN cache THEN Some(cache[key]) ELSE None
CachePut(cache, key, name) ==
    [k \in DOMAIN cache \cup {key} |-> IF k = key THEN name ELSE cache[k]]

\* out_dir.glob(base + ".*")
Glob(files, base) == {n \in DOMAIN files : StartsWith(n, base \o ".")}

\* f"page{page_number}_{idx}" and f"page{page_number}_v{idx}"
ExpectedBase(kind, page_number, idx) ==
    "page" \o IntToStr(page_number) \o "_" \o (IF kind = "video" THEN "v" ELSE "")
        \o IntToStr(idx)

\* the state of one rewrite_*_to_local_cached call
ResolveStart(files, cachefile) ==
    [files |-> files, cache |-> _load_cache(cachefile), local_names |-> <<>>,
     reused |-> 0, downloaded |-> 0, seen_rels |-> {}, attempts |-> <<>>]

Reuse(st, rel) ==
    [st EXCEPT !.local_names = Append(@, rel), !.seen_rels = @ \cup {rel}, !.reused = @ + 1]

\* lines 176-184: after a failed download, fall back to the mapped file
Fallback(st, rel) ==
    IF ~IsNone(rel) /\ FileExists(st.files, Val(rel)) /\ Val(rel) \notin st.seen_rels
    THEN Reuse(st, Val(rel))
    ELSE st

\* what one download attempt was and left behind: the answer's size, whether
\* download_image returned True, the file it opened, whether that file is
\* still there, whether it opened a file that the call had already returned
\* for an earlier URL, and the files from before the attempt that it
\* changed or removed
Attempt(url, resp, dl) ==
    [url |-> url, ok |-> dl.ok, size |-> resp.size, dest |-> dl.dest,
     dest_left |-> ~IsNone(dl.dest) /\ FileExists(dl.files, Val(dl.dest)),
     local_name |-> None, over_seen |-> FALSE, changed |-> {}]

\* the name this iteration appended to local_names, if any, noted on its
\* attempt
Noted(st, st1) ==
    IF Len(st1.local_names) > Len(st.local_names)
    THEN [st1 EXCEPT !.attempts[Len(st1.attempts)].local_name =
                          Some(st1.local_names[Len(st1.local_names)])]
    ELSE st1

\* the files of `before` that are missing from `after` or differ in it
Changed(before, after) ==
    { n \in DOMAIN before : n \notin DOMAIN after \/ after[n] # before[n] }

\* lines 163-184: what the iteration leaves once download_image returned dl
\* for the answer resp, for every file glob() may yield first
AfterDownload(st, rel, key, expected_base, url, resp, dl) ==
    LET st1 == [st EXCEPT !.files = dl.files,
                          !.attempts = Append(@, [Attempt(url, resp, dl) EXCEPT
                                                     !.over_seen = /\ ~IsNone(dl.dest)
                                                                   /\ Val(dl.dest) \in st.seen_rels,
                                                     !.changed = Changed(st.files, dl.files)])]
    IN IF dl.ok
       THEN IF Glob(dl.files, expected_base) = {}
            THEN { Fallback(st1, rel) }
            ELSE { [st1 EXCEPT !.cache = CachePut(@, key, saved),
                               !.local_names = Append(@, saved),
                               !.seen_rels = @ \cup {saved},
                               !.downloaded = @ + 1]
                   : saved \in Glob(dl.files, expected_base) }
       ELSE { Fallback(st1, rel) }

\* One iteration of the loop at line 149, for every answer the server may give
\* and every file glob() may yield first: the set of possible next states.
ResolveUrl(st, kind, page_number, idx, url, limit_bytes, answers) ==
    LET key == _canonical_media_key(url)
        rel == CacheGet(st.cache, key)
        expected_base == ExpectedBase(kind, page_number, idx)
        can_reuse == /\ ~IsNone(rel)
                     /\ Val(rel) # ""
                     /\ FileExists(st.files, Val(rel))
                     /\ Val(rel) \notin st.seen_rels
    IN IF can_reuse
       THEN { Reuse(st, Val(rel)) }
       ELSE UNION { UNION { { Noted(st, st2)
                             : st2 \in AfterDownload(st, rel, key, expected_base, url,
                                                     resp, dl) }
                           : dl \in { download_image(st.files, url, expected_base,
                                                     limit_bytes, resp) } }
                    : resp \in answers[url] }

\* a variant that gives up after the first URL
ResolveLoopFirstOnly(st, kind, page_number, idx, urls, limit_bytes, answers) ==
    IF urls = <<>> THEN {st}
    ELSE ResolveUrl(st, kind, page_number, idx, urls[1], limit_bytes, answers)

RECURSIVE ResolveLoop(_, _, _, _, _, _, _)
ResolveLoop(st, kind, page_number, idx, urls, limit_bytes, answers) ==
    IF urls = <<>> THEN {st}
    ELSE UNION { ResolveLoop(st1, kind, page_number, idx + 1, Tail(urls), limit_bytes, answers)
                 : st1 \in ResolveUrl(st, kind, page_number, idx, urls[1], limit_bytes, answers) }

\* rewrite_images_to_local_cached / rewrite_videos_to_local_cached: the set
\* of possible results [files, cachefile, local_names, reused, downloaded]
\* and whether the call raised.  cache.get at line 151 raises AttributeError
\* when the loaded value is not a dict; nothing is saved then.  With no URL
\* the loaded value is written back as it is.
rewrite_to_local_cached(files, cachefile, kind, page_number, urls, limit_bytes, answers) ==
    IF ~LoadsDict(cachefile)
    THEN { [files |-> files, cachefile |-> cachefile, local_names |-> <<>>, reused |-> 0,
            downloaded |-> 0, attempts |-> <<>>,
            raised |-> IF urls = <<>> THEN "" ELSE "AttributeError"] }
    ELSE { [files |-> st.files, cachefile |-> _save_cache(st.cache),
            local_names |-> st.local_names, reused |-> st.reused,
            downloaded |-> st.downloaded, attempts |-> st.attempts, raised |-> ""]
           : st \in ResolveLoop(ResolveStart(files, cachefile), kind, page_number, 1, urls,
                                limit_bytes, answers) }

-----------------------------------------------------------------------------
(* The media cache as a state machine: one resolve call per step.           *)

MaxCalls == 2
MaxPage == 2
\* the size limit of downloads, in bytes (int(max_image_mb * 1024 * 1024))
LimitBytes == 2

UrlA1 == "https://cdn.discordapp.com/att/a.png?ex=1"
\* the same attachment, signed again
UrlA2 == "https://cdn.discordapp.com/att/a.png?ex=2"
UrlB == "https://example.org/b"
UrlV == "https://media.discordapp.net/att/v.mp4?ex=1"

\* not an HTTP(S) URL
UrlF == "ftp://example.org/c.png"

MediaUrls == {UrlA1, UrlA2, UrlB, UrlV, UrlF}

\* what the servers may answer for each URL
Answers ==
    [u \in MediaUrls |->
        CASE u \in {UrlA1, UrlA2} ->
                { Body("image/png", 1, FALSE),
                  Body("image/png", LimitBytes + 1, FALSE),
                  Body("image/png", 1, TRUE) }
          [] u = UrlB -> { Body("image/png", 1, FALSE), Refused }
          [] u = UrlF -> { Refused }
          [] OTHER -> { Body("video/mp4", 1, FALSE), Refused }]

ImageUrlLists ==
    { <<UrlA1>>, <<UrlA2>>, <<UrlA1, UrlA1>>, <<UrlB>>, <<UrlB, UrlA1>>, <<UrlF, UrlB>> }
VideoUrlLists == { <<UrlV>> }

CacheIdle ==
    /\ media_files = <<>>
    /\ images_cache = AbsentCache
    /\ videos_cache = AbsentCache
    /\ calls = <<>>

CallRecord(kind, page_number, urls, cachefile, r) ==
    [kind |-> kind, page_number |-> page_number, urls |-> urls,
     file_before |-> cachefile.kind, cache_before |-> _load_cache(cachefile),
     raised |-> r.raised, local_names |-> r.local_names, reused |-> r.reused, downloaded |-> r.downloaded,
     attempts |-> r.attempts]

ResolveImages ==
    /\ Len(calls) < MaxCalls
    /\ \E page_number \in 1..MaxPage, urls \in ImageUrlLists :
         \E r \in rewrite_to_local_cached(media_files, images_cache, "image", page_number, urls,
                                          LimitBytes, Answers) :
            /\ media_files' = r.files
            /\ images_cache' = r.cachefile
            /\ calls' = Append(calls, CallRecord("image", page_number, urls, images_cache, r))
    /\ UNCHANGED videos_cache
    /\ UNCHANGED notCacheVars

ResolveVideos ==
    /\ Len(calls) < MaxCalls
    /\ \E page_number \in 1..MaxPage, urls \in VideoUrlLists :
         \E r \in rewrite_to_local_cached(media_files, videos_cache, "video", page_number, urls,
                                          LimitBytes, Answers) :
            /\ media_files' = r.files
            /\ videos_cache' = r.cachefile
            /\ calls' = Append(calls, CallRecord("video", page_number, urls, videos_cache, r))
    /\ UNCHANGED images_cache
    /\ UNCHANGED notCacheVars

SegIdle ==
    /\ allowed_user_ids = {}
    /\ shill_replacements = <<>>
    /\ messages = <<>>
    /\ seg_before = SegInit
    /\ seg = SegInit
    /\ seg_result = None

\* the mapping files a first call may find
CacheFiles == {AbsentCache, MalformedCache, ArrayCache}

CacheStart ==
    /\ media_files = <<>>
    /\ \E found \in CacheFiles : images_cache = found /\ videos_cache = found
    /\ calls = <<>>
    /\ SegIdle /\ PubIdle /\ ClientIdle /\ WriteIdle /\ FeedIdle

CacheNext == ResolveImages \/ ResolveVideos

SpecCache == CacheStart /\ [][CacheNext]_vars

-----------------------------------------------------------------------------
(* The segmenter as a state machine: one message is consumed per step.      *)

MaxMessages == 3

NoEmbeds == <<>>
NoAttachments == <<>>

ImgA == [url |-> "https://cdn.discordapp.com/a.png?ex=1", content_type |-> "image/png",
         filename |-> "a.png"]
ImgB == [url |-> "https://example.org/b", content_type |-> "", filename |-> "B.JPG"]

\* the messages the source may deliver (created_at is set on delivery)
SegMessages ==
    { [author |-> 1, content |-> "hello", attachments |-> NoAttachments, embeds |-> NoEmbeds],
      [author |-> 1, content |-> "> go north", attachments |-> NoAttachments, embeds |-> NoEmbeds],
      [author |-> 1, content |-> "world", attachments |-> NoAttachments, embeds |-> NoEmbeds],
      [author |-> 1, content |-> "", attachments |-> <<ImgA>>, embeds |-> NoEmbeds],
      [author |-> 1, content |-> "> look", attachments |-> <<ImgB>>, embeds |-> NoEmbeds],
      [author |-> 2, content |-> "> spam", attachments |-> NoAttachments, embeds |-> NoEmbeds],
      [author |-> 1, content |-> "[END OF UPDATES]", attachments |-> NoAttachments,
       embeds |-> NoEmbeds],
      [author |-> 1, content |-> "> one\nnote\n> two", attachments |-> NoAttachments,
       embeds |-> NoEmbeds],
      [author |-> 1, content |-> "==> dance", attachments |-> NoAttachments,
       embeds |-> NoEmbeds] }

Authors == { t.author : t \in SegMessages }

AllowLists == { {}, {1} }
RedactionLists == { <<>>, << <<"WORLD", "">> >> }

Delivered(m, ts) ==
    [author |-> m.author, content |-> m.content, attachments |-> m.attachments,
     embeds |-> m.embeds, created_at |-> ts]

SegStart ==
    /\ WriteIdle
    /\ FeedIdle
    /\ CacheIdle
    /\ PubIdle
    /\ ClientIdle
    /\ allowed_user_ids \in AllowLists
    /\ shill_replacements \in RedactionLists
    /\ messages = <<>>
    /\ seg_before = SegInit
    /\ seg = SegInit
    /\ seg_result = None

SegConsume ==
    /\ IsNone(seg_result)
    /\ Len(messages) < MaxMessages
    /\ \E t \in SegMessages :
         LET m == Delivered(t, Len(messages) + 1)
         IN /\ messages' = Append(messages, m)
            /\ seg_before' = seg
            /\ seg' = ParseStep(seg, m, shill_replacements, allowed_user_ids)
    /\ UNCHANGED <<allowed_user_ids, shill_replacements, seg_result>>
    /\ UNCHANGED notSegVars

SegReturn ==
    /\ IsNone(seg_result)
    /\ seg_result' = Some(ParseFinish(seg))
    /\ UNCHANGED <<allowed_user_ids, shill_replacements, messages, seg_before, seg>>
    /\ UNCHANGED notSegVars

SegNext == SegConsume \/ SegReturn

SpecSeg == SegStart /\ [][SegNext]_vars

-----------------------------------------------------------------------------
(* Claims about the segmenter, checked under SpecSeg.                       *)

LastMessage == messages[Len(messages)]
IsAllowed(m) == allowed_user_ids = {} \/ m.author \in allowed_user_ids
HasNoMedia(m) == m.attachments = <<>> /\ m.embeds = <<>>
TextOf(m) == MessageText(m, shill_replacements)
IsOneLine(t) == \A i \in 1..Len(t) : Char(t, i) \notin {"\n", "\r"}
\* a message whose only content is one command line "> ..."
IsCommandOnly(m) ==
    HasNoMedia(m) /\ IsOneLine(TextOf(m)) /\ StartsWith(TextOf(m), ">") /\ Len(TextOf(m)) > 1
AllImages(m) ==
    m.attachments # <<>> /\ \A i \in 1..Len(m.attachments) : is_image_attachment(m.attachments[i])
AttachmentUrls(m) == [i \in 1..Len(m.attachments) |-> m.attachments[i].url]
ContentsOf(msgs) == [i \in 1..Len(msgs) |-> msgs[i].content]
PageIsNonEmpty(p) ==
    \/ p.images # <<>>
    \/ p.videos # <<>>
    \/ p.paragraphs # <<>>
    \/ (~IsNone(p.command_text) /\ Val(p.command_text) # "")

HelloGoWorld ==
    /\ ContentsOf(messages) = <<"hello", "> go north", "world">>
    /\ \A i \in 1..Len(messages) : IsAllowed(messages[i]) /\ HasNoMedia(messages[i])
    /\ shill_replacements = <<>>
    /\ ~IsNone(seg_result)

\* C1: a command-only message that arrives while the current page has content
\* puts its command on that page, which is closed, and leaves a fresh page for
\* what follows; and "hello", "> go north", "world" gives the two pages
\* {paragraphs ["hello"], command "go north"} and {paragraphs ["world"]}.
C1_CommandEndsPage ==
    /\ (/\ Len(messages) >= 1
        /\ IsAllowed(LastMessage)
        /\ IsCommandOnly(LastMessage)
        /\ current_has_content(seg_before.current))
       => /\ seg.pages =
               Append(seg_before.pages,
                      [seg_before.current EXCEPT
                          !.command_text = Some(Strip(DropFirst(TextOf(LastMessage), 1))),
                          !.last_ts = Some(LastMessage.created_at)])
          /\ seg.current = EmptyPage
    /\ HelloGoWorld
       => LET pages == Val(seg_result)
          IN /\ Len(pages) = 2
             /\ pages[1].paragraphs = <<"hello">>
             /\ pages[1].command_text = Some("go north")
             /\ pages[1].images = <<>> /\ pages[1].videos = <<>>
             /\ pages[2].paragraphs = <<"world">>
             /\ pages[2].command_text = None
             /\ pages[2].images = <<>> /\ pages[2].videos = <<>>

C1_Witness == HelloGoWorld /\ Len(Val(seg_result)) = 2

\* the last message carries a command and image attachments only
CommandWithImage ==
    /\ Len(messages) >= 1
    /\ IsAllowed(LastMessage)
    /\ ~IsNone(ExtractCommand(TextOf(LastMessage)))
    /\ AllImages(LastMessage)
    /\ LastMessage.embeds = <<>>

\* the message closed the current page with its command and its images are on
\* the page begun after it
SplitAcrossTwoPages ==
    /\ Len(seg.pages) = Len(seg_before.pages) + 1
    /\ seg.pages[Len(seg.pages)].command_text = ExtractCommand(TextOf(LastMessage))
    /\ seg.pages[Len(seg.pages)].images = seg_before.current.images
    /\ seg.current.command_text = None
    /\ seg.current.images = AttachmentUrls(LastMessage)

\* the command and the images of the message are on one page
OnTheSamePage ==
    /\ seg.current.command_text = ExtractCommand(TextOf(LastMessage))
    /\ seg.current.images = AttachmentUrls(LastMessage)

\* C2 as stated: whatever came before, a message with a command line and an
\* image attachment puts the command on one page and the image on the next.
C2_AlwaysSplit == CommandWithImage => SplitAcrossTwoPages

\* C2 amended: the message is split across two pages exactly when the current
\* page already has content; on a page without content the command and the
\* image of the message land on the same page.
C2_SplitWhenContent ==
    CommandWithImage =>
        IF current_has_content(seg_before.current)
        THEN SplitAcrossTwoPages
        ELSE OnTheSamePage /\ ~SplitAcrossTwoPages

C2_Witness ==
    CommandWithImage /\ current_has_content(seg_before.current) /\ SplitAcrossTwoPages

\* C3: every page the segmenter returns, and every page it has closed so far,
\* has an image, a video, a paragraph or a command.
C3_NoEmptyPage ==
    /\ \A i \in 1..Len(seg.pages) : PageIsNonEmpty(seg.pages[i])
    /\ ~IsNone(seg_result)
       => \A i \in 1..Len(Val(seg_result)) : PageIsNonEmpty(Val(seg_result)[i])

C3_Witness ==
    /\ ~IsNone(seg_result)
    /\ Len(Val(seg_result)) >= 2
    /\ \E i \in 1..Len(Val(seg_result)) :
          Val(seg_result)[i].paragraphs = <<>> /\ Val(seg_result)[i].images = <<>>

\* the messages the author filter lets through
RECURSIVE AllowedOf(_)
AllowedOf(msgs) ==
    IF msgs = <<>> THEN <<>>
    ELSE (IF IsAllowed(msgs[1]) THEN <<msgs[1]>> ELSE <<>>) \o AllowedOf(Tail(msgs))

\* C21: a message of an author outside a configured allow-list changes neither
\* the accumulator nor the page list, so the pages of a sequence are the pages
\* of the sequence without such messages; with an empty allow-list the pages
\* are those of a run that allows every author.
C21_FilteredHasNoEffect ==
    /\ (Len(messages) >= 1 /\ ~IsAllowed(LastMessage)) => seg = seg_before
    /\ ~IsNone(seg_result)
       => Val(seg_result) =
             parse_pages_from_messages(AllowedOf(messages), shill_replacements,
                                       IF allowed_user_ids = {} THEN Authors
                                       ELSE allowed_user_ids)

\* a message of author 2 came between two of author 1, who alone is allowed
C21_Witness ==
    /\ ~IsNone(seg_result)
    /\ allowed_user_ids = {1}
    /\ Len(messages) = 3
    /\ messages[1].author = 1 /\ messages[2].author = 2 /\ messages[3].author = 1
    /\ Len(Val(seg_result)) >= 1

\* a message without media whose text is an end-of-update(s) annotation
IsEndOfUpdates(m) == HasNoMedia(m) /\ _END_UPDATE_BRACKET_RE(TextOf(m))

RECURSIVE WithoutEndOfUpdates(_)
WithoutEndOfUpdates(msgs) ==
    IF msgs = <<>> THEN <<>>
    ELSE (IF IsEndOfUpdates(msgs[1]) THEN <<>> ELSE <<msgs[1]>>)
         \o WithoutEndOfUpdates(Tail(msgs))

\* C22: a message without media whose text is only an end-of-update(s)
\* annotation leaves the accumulator and the page list as they were, and the
\* pages returned are those of the sequence without such messages.
C22_EndOfUpdatesHasNoEffect ==
    /\ (Len(messages) >= 1 /\ IsEndOfUpdates(LastMessage)) => seg = seg_before
    /\ ~IsNone(seg_result)
       => Val(seg_result) =
             parse_pages_from_messages(WithoutEndOfUpdates(messages), shill_replacements,
                                       allowed_user_ids)

\* the annotation came between "hello" and "world", which share one page
C22_Witness ==
    /\ ~IsNone(seg_result)
    /\ ContentsOf(messages) = <<"hello", "[END OF UPDATES]", "world">>
    /\ shill_replacements = <<>>
    /\ Len(Val(seg_result)) = 1
    /\ Val(seg_result)[1].paragraphs = <<"hello", "world">>
    /\ Val(seg_result)[1].last_ts = Some(3)

\* a line that the command extraction takes for a command (lines 218-222)
IsCommandLine(line) ==
    \/ StartsWith(Strip(line), ">") /\ Len(Strip(line)) > 1
    \/ StartsWith(Lower(Strip(line)), "==>") /\ Len(Strip(line)) > 3

\* the text a command line gives as its command
CommandText(line) ==
    IF StartsWith(Strip(line), ">") THEN Strip(DropFirst(Strip(line), 1))
    ELSE Strip(DropFirst(Strip(line), 3))

\* the command lines among the lines of a text, in order
RECURSIVE CommandLinesOf(_)
CommandLinesOf(lines) ==
    IF lines = <<>> THEN <<>>
    ELSE (IF IsCommandLine(lines[1]) THEN <<lines[1]>> ELSE <<>>)
         \o CommandLinesOf(Tail(lines))

CommandLines(m) == CommandLinesOf(Split(TextOf(m), "\n"))

\* the pages closed by the last message, and the accumulator after it
PagesAfterLast == SubSeq(seg.pages, Len(seg_before.pages) + 1, Len(seg.pages)) \o <<seg.current>>

\* C23: a message with several command lines applies one command, the text of
\* its last command line: that text is set on exactly one page, the text of an
\* earlier command line on none, and at most one page is closed.
C23_LastCommandWins ==
    (Len(messages) >= 1 /\ IsAllowed(LastMessage) /\ Len(CommandLines(LastMessage)) >= 2)
    => LET lines == CommandLines(LastMessage)
           last == Some(CommandText(lines[Len(lines)]))
       IN /\ Len(seg.pages) <= Len(seg_before.pages) + 1
          /\ Cardinality({ k \in 1..Len(PagesAfterLast) :
                             PagesAfterLast[k].command_text = last }) = 1
          /\ \A k \in 1..Len(PagesAfterLast) :
                PagesAfterLast[k].command_text
                    \in {None, last, seg_before.current.command_text}
          /\ IF current_has_content(seg_before.current)
             THEN seg.pages[Len(seg.pages)].command_text = last
             ELSE seg.current.command_text = last

\* "> one", "note", "> two" arrived on a page with content, which was closed
\* with the command "two"
C23_Witness ==
    /\ Len(messages) >= 2
    /\ IsAllowed(LastMessage)
    /\ Len(CommandLines(LastMessage)) = 2
    /\ current_has_content(seg_before.current)
    /\ Len(seg.pages) = Len(seg_before.pages) + 1
    /\ seg.pages[Len(seg.pages)].command_text = Some("two")
    /\ seg.current.paragraphs = <<"note">>

\* a message without media whose text is one command line
IsCommandMessage(m) == HasNoMedia(m) /\ IsOneLine(TextOf(m)) /\ IsCommandLine(TextOf(m))

\* C24: a command that arrives on a page without content is set on that page,
\* after the page was emitted if it already had a command; and k command-only
\* messages in a row from the start give k pages with one command each, in
\* message order.
C24_CommandOnlyPages ==
    /\ (/\ Len(messages) >= 1
        /\ IsAllowed(LastMessage)
        /\ ~IsNone(ExtractCommand(TextOf(LastMessage)))
        /\ ~current_has_content(seg_before.current))
       => /\ seg.current.command_text = ExtractCommand(TextOf(LastMessage))
          /\ seg.pages = IF IsNone(seg_before.current.command_text)
                         THEN seg_before.pages
                         ELSE Append(seg_before.pages, seg_before.current)
    /\ (/\ ~IsNone(seg_result)
        /\ \A i \in 1..Len(messages) :
               IsAllowed(messages[i]) /\ IsCommandMessage(messages[i]))
       => /\ Len(Val(seg_result)) = Len(messages)
          /\ \A i \in 1..Len(messages) :
                Val(seg_result)[i].command_text = Some(CommandText(TextOf(messages[i])))

\* the pages closed so far and the accumulator
PagesSoFar == seg.pages \o <<seg.current>>

\* C25: no paragraph of a page is a line that the command extraction takes
\* for a command.
C25_NoCommandInParagraphs ==
    \A k \in 1..Len(PagesSoFar) :
        \A j \in 1..Len(PagesSoFar[k].paragraphs) :
            ~IsCommandLine(PagesSoFar[k].paragraphs[j])

\* where the commands and the media of the messages ended up
Boundaries(pages) ==
    [k \in 1..Len(pages) |->
        [command_text |-> pages[k].command_text, images |-> pages[k].images,
         videos |-> pages[k].videos]]

\* C26: the pages returned with a redaction list are as many as, and hold the
\* commands and media of, the pages returned for the same messages without
\* one.
C26_RedactionKeepsBoundaries ==
    ~IsNone(seg_result)
    => Boundaries(Val(seg_result)) =
          Boundaries(parse_pages_from_messages(messages, <<>>, allowed_user_ids))

\* the page holds a command and content
HasCommandAndContent(page) == ~IsNone(page.command_text) /\ current_has_content(page)

\* C30 as stated: between two messages the accumulator never holds both a
\* command and content.
C30_ThreeStates == ~HasCommandAndContent(seg.current)

\* C30 amended: the accumulator may also hold a command and content, when
\* content followed the command; a command is never set on an accumulator
\* that has content: a message leaves such an accumulator with the command
\* it had, or closes it and leaves one without a command.
C30_CommandNeverAfterContent ==
    (Len(messages) >= 1 /\ current_has_content(seg_before.current))
    => \/ /\ seg.pages = seg_before.pages
          /\ seg.current.command_text = seg_before.current.command_text
       \/ /\ Len(seg.pages) = Len(seg_before.pages) + 1
          /\ IsNone(seg.current.command_text)

\* an accumulator with a command and content was closed by the next command
C30_Witness ==
    /\ Len(messages) >= 2
    /\ HasCommandAndContent(seg_before.current)
    /\ Len(seg.pages) = Len(seg_before.pages) + 1
    /\ IsNone(seg.current.command_text)

\* the commands the pages carry, in page order
RECURSIVE CommandsOfPages(_)
CommandsOfPages(pages) ==
    IF pages = <<>> THEN <<>>
    ELSE (IF IsNone(pages[1].command_text) THEN <<>> ELSE <<Val(pages[1].command_text)>>)
         \o CommandsOfPages(Tail(pages))

\* the commands of the messages that pass the author filter, in message order
RECURSIVE CommandsOfMessages(_)
CommandsOfMessages(msgs) ==
    IF msgs = <<>> THEN <<>>
    ELSE (IF IsAllowed(msgs[1]) /\ ~IsNone(ExtractCommand(TextOf(msgs[1])))
          THEN <<Val(ExtractCommand(TextOf(msgs[1])))>> ELSE <<>>)
         \o CommandsOfMessages(Tail(msgs))

\* C32: no command is lost: a command set on a page stays on it whatever the
\* next message is, and the commands of the returned pages are the commands of
\* the allowed messages that contain a command line, as many and in message
\* order.
C32_NoCommandLost ==
    /\ (Len(messages) >= 1 /\ ~IsNone(seg_before.current.command_text))
       => PagesSoFar[Len(seg_before.pages) + 1].command_text
             = seg_before.current.command_text
    /\ ~IsNone(seg_result)
       => CommandsOfPages(Val(seg_result)) = CommandsOfMessages(messages)

\* the page carries a command that is not the empty string
HasCommand(page) == ~IsNone(page.command_text) /\ Val(page.command_text) # ""

\* C33: every page the segmenter has closed carries a non-empty command, so
\* every page it returns, except possibly the last, does.
C33_ClosedPagesHaveCommand ==
    /\ \A i \in 1..Len(seg.pages) : HasCommand(seg.pages[i])
    /\ ~IsNone(seg_result)
       => \A i \in 1..(Len(Val(seg_result)) - 1) : HasCommand(Val(seg_result)[i])

\* three pages were returned, the last of them without a command
C33_Witness ==
    /\ ~IsNone(seg_result)
    /\ Len(Val(seg_result)) = 3
    /\ IsNone(Val(seg_result)[3].command_text)
    /\ HasCommand(Val(seg_result)[1])

\* the last message carries a command and arrived on a page with content
CommandOnContent ==
    /\ Len(messages) >= 1
    /\ IsAllowed(LastMessage)
    /\ ~IsNone(ExtractCommand(TextOf(LastMessage)))
    /\ current_has_content(seg_before.current)

\* C34: a message with a command that arrives on a page with content closes
\* that page, which gets from the message its command and its timestamp and
\* nothing else; every paragraph block of the message, from before or from
\* after the command line, is on the page begun after it.
C34_ParagraphsOnNewPage ==
    CommandOnContent
    => /\ seg.pages =
             Append(seg_before.pages,
                    [seg_before.current EXCEPT
                        !.command_text = ExtractCommand(TextOf(LastMessage)),
                        !.last_ts = Some(LastMessage.created_at)])
       /\ seg.current.paragraphs = normalize_paragraphs(TextOf(LastMessage))
       /\ IsNone(seg.current.command_text)

\* the line "note", written before the command line "> two", is on the new
\* page and not on the page that "two" closed
C34_Witness ==
    /\ CommandOnContent
    /\ LastMessage.content = "> one\nnote\n> two"
    /\ seg.pages[Len(seg.pages)].command_text = Some("two")
    /\ seg.pages[Len(seg.pages)].paragraphs = seg_before.current.paragraphs
    /\ seg.current.paragraphs = <<"note">>

-----------------------------------------------------------------------------
(* Claims about the media cache, checked under SpecCache.                   *)

AllDownloadsOk(call) == \A i \in 1..Len(call.attempts) : call.attempts[i].ok
PresentsOnly(call, key) ==
    /\ call.urls # <<>>
    /\ \A i \in 1..Len(call.urls) : _canonical_media_key(call.urls[i]) = key
\* the call loaded a mapping, and the mapping did not hold key
NotCachedBefore(call, key) ==
    call.file_before # "array" /\ key \notin DOMAIN call.cache_before
MediaKeys == { _canonical_media_key(u) : u \in MediaUrls }

\* call i presents one canonical URL, N times, that the cache did not hold
RepeatedInOneCall(i, key) ==
    /\ PresentsOnly(calls[i], key)
    /\ NotCachedBefore(calls[i], key)
    /\ AllDownloadsOk(calls[i])

\* calls i and i+1 (of the same kind) present one canonical URL once each
OnceInEachOfTwoCalls(i, key) ==
    /\ i + 1 <= Len(calls)
    /\ calls[i].kind = calls[i + 1].kind
    /\ Len(calls[i].urls) = 1 /\ Len(calls[i + 1].urls) = 1
    /\ PresentsOnly(calls[i], key) /\ PresentsOnly(calls[i + 1], key)
    /\ NotCachedBefore(calls[i], key)
    /\ AllDownloadsOk(calls[i]) /\ AllDownloadsOk(calls[i + 1])

\* C4 as stated: the same canonical URL presented N times in one call, or once
\* in each of two successive calls, costs one download and N-1 cache hits.
C4_OneDownload ==
    \A key \in MediaKeys : \A i \in 1..Len(calls) :
        /\ RepeatedInOneCall(i, key)
           => calls[i].downloaded = 1 /\ calls[i].reused = Len(calls[i].urls) - 1
        /\ OnceInEachOfTwoCalls(i, key)
           => /\ calls[i].downloaded + calls[i + 1].downloaded = 1
              /\ calls[i].reused + calls[i + 1].reused = 1

\* C4 amended: once in each of two successive calls costs one download and one
\* hit; N times in one call costs N downloads and no hit, since a file already
\* used in the call is not reused.
C4_OneDownloadAcrossCalls ==
    \A key \in MediaKeys : \A i \in 1..Len(calls) :
        /\ RepeatedInOneCall(i, key)
           => calls[i].downloaded = Len(calls[i].urls) /\ calls[i].reused = 0
        /\ OnceInEachOfTwoCalls(i, key)
           => /\ calls[i].downloaded + calls[i + 1].downloaded = 1
              /\ calls[i].reused + calls[i + 1].reused = 1
              /\ calls[i + 1].local_names = calls[i].local_names

\* the attachment is presented under two signatures, one per call
C4_Witness ==
    /\ Len(calls) = 2
    /\ calls[1].urls = <<UrlA1>> /\ calls[2].urls = <<UrlA2>>
    /\ OnceInEachOfTwoCalls(1, _canonical_media_key(UrlA1))
    /\ calls[1].downloaded = 1 /\ calls[2].reused = 1


\* the attempts of call i that streamed more bytes than the limit allows
OverLimit(i) ==
    { j \in 1..Len(calls[i].attempts) : calls[i].attempts[j].size > LimitBytes }

\* C12: a download that streams more bytes than the limit returns False,
\* leaves no file at the destination it opened, and adds no name for its URL
\* to the list the resolve call returns.
C12_OverLimitDropped ==
    \A i \in 1..Len(calls) : \A j \in OverLimit(i) :
        /\ ~calls[i].attempts[j].ok
        /\ ~IsNone(calls[i].attempts[j].dest)
        /\ ~calls[i].attempts[j].dest_left
        /\ IsNone(calls[i].attempts[j].local_name)

\* one call was given the attachment twice; one download was over the limit,
\* the other was kept, and the call returned one name
C12_Witness ==
    \E i \in 1..Len(calls) :
        /\ OverLimit(i) # {}
        /\ \E j \in 1..Len(calls[i].attempts) : calls[i].attempts[j].ok
        /\ Len(calls[i].urls) = 2
        /\ Len(calls[i].local_names) = 1

\* call i found a mapping file that is not a JSON object
FoundCorrupt(i) == calls[i].file_before \in {"malformed", "array"}

\* C17: a resolve call that finds a mapping file which is unreadable, malformed
\* or valid JSON other than an object goes on with an empty cache and returns
\* without raising.
C17_CorruptCacheIsEmpty ==
    \A i \in 1..Len(calls) :
        FoundCorrupt(i) => calls[i].cache_before = <<>> /\ calls[i].raised = ""

\* the keys of the mapping a file persists (none when it holds no object)
PersistedKeys(cachefile) == DOMAIN _load_cache(cachefile)

\* C19: no resolve call removes a key from a persisted mapping.
C19_KeysNeverShrink ==
    [][/\ PersistedKeys(images_cache) \subseteq PersistedKeys(images_cache')
       /\ PersistedKeys(videos_cache) \subseteq PersistedKeys(videos_cache')]_vars

\* a second call found a mapping with a key and persisted a larger one
C19_Witness ==
    /\ Len(calls) = 2
    /\ calls[2].kind = "image"
    /\ calls[2].cache_before # <<>>
    /\ DOMAIN calls[2].cache_before \subseteq PersistedKeys(images_cache)
    /\ DOMAIN calls[2].cache_before # PersistedKeys(images_cache)

\* a is b with some elements left out
RECURSIVE IsSubSeq(_, _)
IsSubSeq(a, b) ==
    IF a = <<>> THEN TRUE
    ELSE IF b = <<>> THEN FALSE
         ELSE IF a[1] = b[1] THEN IsSubSeq(Tail(a), Tail(b)) ELSE IsSubSeq(a, Tail(b))

AttemptUrls(call) == [j \in 1..Len(call.attempts) |-> call.attempts[j].url]

\* the names the attempts of the call added to its list, in attempt order
RECURSIVE NotedNames(_)
NotedNames(attempts) ==
    IF attempts = <<>> THEN <<>>
    ELSE (IF IsNone(attempts[1].local_name) THEN <<>> ELSE <<Val(attempts[1].local_name)>>)
         \o NotedNames(Tail(attempts))

HasFailure(call) == \E j \in 1..Len(call.attempts) : ~call.attempts[j].ok

\* C27: in a call with a failed download no URL is attempted more than once,
\* every URL is either attempted or served from the cache, the call returns
\* without raising, and the names it returns are in the order of their URLs.
C27_FailureDropsOneUrl ==
    \A i \in 1..Len(calls) :
        HasFailure(calls[i])
        => /\ IsSubSeq(AttemptUrls(calls[i]), calls[i].urls)
           /\ Len(calls[i].attempts) + calls[i].reused = Len(calls[i].urls)
           /\ calls[i].raised = ""
           /\ Len(calls[i].local_names) = calls[i].downloaded + calls[i].reused
           /\ IsSubSeq(NotedNames(calls[i].attempts), calls[i].local_names)

\* the first URL of a call was refused and the second was downloaded
C27_Witness ==
    \E i \in 1..Len(calls) :
        /\ Len(calls[i].urls) = 2
        /\ Len(calls[i].attempts) = 2
        /\ ~calls[i].attempts[1].ok /\ calls[i].attempts[2].ok
        /\ calls[i].local_names = <<ExpectedBase("image", calls[i].page_number, 2) \o ".png">>

\* the names are pairwise distinct
Distinct(names) == \A i, j \in 1..Len(names) : names[i] = names[j] => i = j

\* C36: the file names a resolve call returns are pairwise distinct, and no
\* download of the call opens a file that the call has already returned for
\* an earlier URL.
C36_NamesDistinct ==
    \A c \in 1..Len(calls) :
        /\ Distinct(calls[c].local_names)
        /\ \A i \in 1..Len(calls[c].attempts) : ~calls[c].attempts[i].over_seen

\* C37: a download that failed left every file from before the attempt as it
\* was, and no file that a resolve call returned is a partial one.
C37_FailedDownloadLeavesFiles ==
    /\ \A c \in 1..Len(calls) :
          \A i \in 1..Len(calls[c].attempts) :
             ~calls[c].attempts[i].ok => calls[c].attempts[i].changed = {}
    /\ calls # <<>>
       => \A j \in 1..Len(calls[Len(calls)].local_names) :
             FileExists(media_files, calls[Len(calls)].local_names[j])
             => media_files[calls[Len(calls)].local_names[j]].whole

\* every entry of the mapping file whose file exists names a file that holds
\* the asset of the entry's key
Coherent(cachefile) ==
    \A key \in DOMAIN _load_cache(cachefile) :
        FileExists(media_files, _load_cache(cachefile)[key])
        => media_files[_load_cache(cachefile)[key]].asset = key

\* C35: after any sequence of resolve calls, a file that a persisted mapping
\* names for a canonical key holds what was downloaded for that key.
C35_CacheCoherent == Coherent(images_cache) /\ Coherent(videos_cache)

-----------------------------------------------------------------------------
(* sitegen.py: the publish pipeline.  A page file holds the values the      *)
(* template was rendered with; a link target f"{n}.html" is the number n.   *)

Truthy(o) == ~IsNone(o) /\ Val(o) # ""
\* Python's `a or b` on optional strings
OrElse(a, b) == IF Truthy(a) THEN a ELSE b

Put(f, k, v) == [x \in DOMAIN f \cup {k} |-> IF x = k THEN v ELSE f[x]]

RECURSIVE SortedNumbers(_)
SortedNumbers(S) ==
    IF S = {} THEN <<>>
    ELSE LET least == CHOOSE n \in S : \A m \in S : n <= m
         IN <<least>> \o SortedNumbers(S \ {least})

StoryTitle == "Quest"

\* f"{n}.html"
PageName(n) == IntToStr(n) \o ".html"
IndexName == "index.html"

\* lines 474-483
HasAnything(p) ==
    p.images # <<>> \/ p.videos # <<>> \/ p.paragraphs # <<>> \/ Truthy(p.command_text)

\* lines 472-483
PagesOf(msgs, replacements, allowed) ==
    IF msgs = <<>> THEN <<>>
    ELSE SelectSeq(parse_pages_from_messages(msgs, replacements, allowed), HasAnything)

\* lines 484-486
TrimOld(pages_old, page_offset) ==
    IF page_offset > 0 /\ Len(pages_old) > page_offset
    THEN SubSeq(pages_old, 1, page_offset)
    ELSE pages_old

\* lines 493-495
BaseOldCount(pages_old, page_offset) ==
    IF page_offset > 0 THEN page_offset ELSE Len(pages_old)

\* The commands block of a page, as the template renders it: a link showing
\* the command, the command without a link, or the placeholder.
CommandLink(href, text) == [kind |-> "link", href |-> href, text |-> text]
CommandNoLink(text) == [kind |-> "text", href |-> 0, text |-> text]
Placeholder == [kind |-> "placeholder", href |-> 0, text |-> ""]

\* templates/page.html.j2: the commands block for command_text, command_href
page_html_j2_commands(command_text, command_href) ==
    IF IsNone(command_text) THEN Placeholder
    ELSE IF IsNone(command_href) THEN CommandNoLink(Val(command_text))
         ELSE CommandLink(Val(command_href), Val(command_text))

\* _render_page_html
_render_page_html(page_number, total_pages, page, prev_command_text, log_items) ==
    LET command_text == IF ~Truthy(page.command_text) /\ page_number > 1
                        THEN Some("Next.") ELSE page.command_text
    IN [page_number |-> page_number,
        total_pages |-> total_pages,
        visible_title |-> OrElse(prev_command_text, OrElse(page.command_text, Some(""))),
        images |-> page.images,
        videos |-> page.videos,
        paragraphs |-> page.paragraphs,
        commands |-> page_html_j2_commands(
                        IF Truthy(command_text) THEN command_text ELSE None,
                        IF Truthy(command_text) /\ page_number < total_pages
                        THEN Some(page_number + 1) ELSE None),
        go_back_href |-> IF page_number > 1 THEN page_number - 1 ELSE 1,
        log_items |-> log_items]

\* The state of the output directory's page files during a run: the files,
\* the writes made so far and the two page counters.
ReadText(d, name) == IF name \in DOMAIN d.html THEN Some(d.html[name]) ELSE None

\* atomic_write: the data goes to a temporary file that replaces the target
atomic_write(d, name, data) ==
    [d EXCEPT !.html = Put(@, name, data),
              !.writes = Append(@, [name |-> name, old |-> ReadText(d, name), new |-> data])]

\* write_if_changed: [d, wrote]
write_if_changed(d, name, data) ==
    IF IsNone(ReadText(d, name)) THEN [d |-> atomic_write(d, name, data), wrote |-> TRUE]
    ELSE IF Val(ReadText(d, name)) = data THEN [d |-> d, wrote |-> FALSE]
         ELSE [d |-> atomic_write(d, name, data), wrote |-> TRUE]

\* _linkify_previous_page: the first regular expression rewrites the target
\* of an existing command link, the second replaces the placeholder
_linkify_previous_page(d, last_old_page_num) ==
    IF last_old_page_num <= 0 \/ IsNone(ReadText(d, PageName(last_old_page_num))) THEN d
    ELSE LET data == Val(ReadText(d, PageName(last_old_page_num)))
         IN IF data.commands.kind = "link"
            THEN atomic_write(d, PageName(last_old_page_num),
                              [data EXCEPT !.commands.href = last_old_page_num + 1])
            ELSE IF data.commands.kind = "placeholder"
                 THEN atomic_write(d, PageName(last_old_page_num),
                                   [data EXCEPT !.commands =
                                        CommandLink(last_old_page_num + 1, "Next")])
                 ELSE d

\* _ensure_next_link
_ensure_next_link(d, page_num, next_num) ==
    IF IsNone(ReadText(d, PageName(page_num))) THEN d
    ELSE LET data == Val(ReadText(d, PageName(page_num)))
             new_data == [data EXCEPT !.commands = CommandLink(next_num, "Next")]
         IN IF new_data # data THEN atomic_write(d, PageName(page_num), new_data) ELSE d

\* The state of a run while the pages are processed (lines 501-510).
ProcessStart(files, icache, vcache) ==
    [files |-> files, images_cache |-> icache, videos_cache |-> vcache,
     processed_pages |-> <<>>, feed_items |-> <<>>,
     local_imgs |-> <<>>, local_vids |-> <<>>,
     total_images_downloaded |-> 0, total_images_reused |-> 0,
     total_videos_downloaded |-> 0, total_videos_reused |-> 0]

\* lines 543-548
PageForRender(page, idx, local_imgs, local_vids) ==
    [images |-> local_imgs, videos |-> local_vids, paragraphs |-> page.paragraphs,
     command_text |-> IF ~Truthy(page.command_text) /\ idx > 1
                      THEN Some("Next.") ELSE page.command_text]

\* The media of the page being processed (lines 522-533): the two resolve
\* calls are made in turn, the images first.
MediaKinds == <<"image", "video">>
UrlsOf(page, kind) == IF kind = "image" THEN page.images ELSE page.videos
CacheFileOf(pb, kind) == IF kind = "image" THEN pb.images_cache ELSE pb.videos_cache

\* lines 522-537 for one of the two calls, r being what it returned
Resolved(pb, kind, r) ==
    IF kind = "image"
    THEN [pb EXCEPT !.files = r.files, !.images_cache = r.cachefile,
                    !.local_imgs = r.local_names,
                    !.total_images_downloaded = @ + r.downloaded,
                    !.total_images_reused = @ + r.reused]
    ELSE [pb EXCEPT !.files = r.files, !.videos_cache = r.cachefile,
                    !.local_vids = r.local_names,
                    !.total_videos_downloaded = @ + r.downloaded,
                    !.total_videos_reused = @ + r.reused]

RECURSIVE ResolveMedia(_, _, _, _, _, _)
ResolveMedia(pb, kinds, idx, page, limit_bytes, answers) ==
    IF kinds = <<>> THEN {pb}
    ELSE UNION { ResolveMedia(Resolved(pb, kinds[1], r), Tail(kinds), idx, page,
                              limit_bytes, answers)
                 : r \in rewrite_to_local_cached(pb.files, CacheFileOf(pb, kinds[1]),
                                                 kinds[1], idx, UrlsOf(page, kinds[1]),
                                                 limit_bytes, answers) }

\* lines 543-566
Processed(pb, idx, page) ==
    [pb EXCEPT !.processed_pages =
                    Put(@, idx, PageForRender(page, idx, pb.local_imgs, pb.local_vids)),
               !.feed_items = Append(@, [ts |-> page.last_ts, num |-> idx])]

\* one iteration of the loop at line 518: the set of possible next states
ProcessPage(pb, idx, page, limit_bytes, answers) ==
    { Processed(pb1, idx, page)
      : pb1 \in ResolveMedia(pb, MediaKinds, idx, page, limit_bytes, answers) }

\* _process_block
RECURSIVE _process_block(_, _, _, _, _)
_process_block(pb, block_pages, start_number, limit_bytes, answers) ==
    IF block_pages = <<>> THEN {pb}
    ELSE UNION { _process_block(pb1, Tail(block_pages), start_number + 1, limit_bytes, answers)
                 : pb1 \in ProcessPage(pb, start_number, block_pages[1], limit_bytes, answers) }

\* lines 569-570: the old block from 1, then the new block from new_start
RECURSIVE ProcessBlocks(_, _, _, _)
ProcessBlocks(pb, blocks, limit_bytes, answers) ==
    IF blocks = <<>> THEN {pb}
    ELSE UNION { ProcessBlocks(pb1, Tail(blocks), limit_bytes, answers)
                 : pb1 \in _process_block(pb, blocks[1].pages, blocks[1].start_number,
                                          limit_bytes, answers) }

\* processed_pages.get(n, {}).get("command_text")
CommandAt(pp, n) == IF n \in DOMAIN pp THEN pp[n].command_text ELSE None
SetCommand(pp, n, cmd) == [pp EXCEPT ![n].command_text = cmd]

\* lines 575-578: pull each command from the next page
RECURSIVE ShiftCommands(_, _, _)
ShiftCommands(pp, n, overall_total_pages) ==
    IF n >= overall_total_pages THEN pp
    ELSE ShiftCommands(IF Truthy(CommandAt(pp, n + 1))
                       THEN SetCommand(pp, n, CommandAt(pp, n + 1)) ELSE pp,
                       n + 1, overall_total_pages)

IsNextDot(c) == Lower(Strip(c)) = "next."

\* lines 585-589: the first command after new_start that is not "Next."
RECURSIVE LookAhead(_, _, _, _)
LookAhead(pp, look, stop, boundary_cmd) ==
    IF look >= stop THEN boundary_cmd
    ELSE LET c == Strip(Val(OrElse(CommandAt(pp, look), Some(""))))
         IN IF c # "" /\ Lower(c) # "next." THEN c
            ELSE LookAhead(pp, look + 1, stop, boundary_cmd)

Min(a, b) == IF a <= b THEN a ELSE b
Max(a, b) == IF a >= b THEN a ELSE b

\* lines 583-589
BoundaryCommand(pp, new_start, overall_total_pages) ==
    LET boundary_cmd == Val(OrElse(CommandAt(pp, new_start), Some("")))
    IN IF boundary_cmd = "" \/ IsNextDot(boundary_cmd)
       THEN LookAhead(pp, new_start + 1, Min(new_start + 10, overall_total_pages + 1),
                      boundary_cmd)
       ELSE boundary_cmd

\* lines 590-595
SetBoundary(pp, new_start, boundary_cmd) ==
    IF boundary_cmd = "" THEN pp
    ELSE LET pp1 == IF (new_start - 1) \in DOMAIN pp
                    THEN SetCommand(pp, new_start - 1, Some(boundary_cmd)) ELSE pp
         IN IF Strip(Val(OrElse(CommandAt(pp1, new_start), Some("")))) = boundary_cmd
            THEN SetCommand(pp1, new_start, Some("Next.")) ELSE pp1

\* lines 572-595
ManualShift(pp, cfg, new_start, overall_total_pages, has_new_pages) ==
    IF cfg.manual_command_shift = -1 /\ pp # <<>>
    THEN LET shifted == ShiftCommands(pp, Max(cfg.manual_command_shift_start_page, new_start),
                                      overall_total_pages)
         IN IF has_new_pages
            THEN SetBoundary(shifted, new_start,
                             BoundaryCommand(shifted, new_start, overall_total_pages))
            ELSE shifted
    ELSE pp

\* line 598: later items replace earlier ones with the same number
TsByNum(feed_items) ==
    [num \in { feed_items[i].num : i \in 1..Len(feed_items) } |->
        feed_items[CHOOSE i \in 1..Len(feed_items) :
                      /\ feed_items[i].num = num
                      /\ \A j \in (i + 1)..Len(feed_items) : feed_items[j].num # num].ts]

\* lines 601-615: the log item of page num
LogItem(pp, ts_by_num, num) ==
    [num |-> num,
     title |-> Val(OrElse(IF num > 1 THEN CommandAt(pp, num - 1) ELSE None,
                          OrElse(pp[num].command_text, Some(StoryTitle)))),
     ts |-> IF num \in DOMAIN ts_by_num THEN ts_by_num[num] ELSE None]

\* the sort key of lines 621-627 and 660-666; no timestamp sorts first
SortKey(item) == <<IF IsNone(item.ts) THEN 0 ELSE Val(item.ts), item.num>>
KeyLess(a, b) == a[1] < b[1] \/ (a[1] = b[1] /\ a[2] < b[2])

\* list.sort(key, reverse=True), stable
\* the place of an item after list.sort(key, reverse=True): one more than
\* the number of items with a greater key (the keys are distinct)
RankNewestFirst(items, i) ==
    1 + Cardinality({ j \in 1..Len(items) : KeyLess(SortKey(items[i]), SortKey(items[j])) })

\* a variant of the sort that leaves the items as they are
SortNot(items) == items

SortNewestFirst(items) ==
    [k \in 1..Len(items) |->
        items[CHOOSE i \in 1..Len(items) : RankNewestFirst(items, i) = k]]

\* lines 598-627
RebuiltLog(pp, feed_items) ==
    CHOOSE log \in
        { SortNewestFirst([i \in 1..Len(nums) |-> LogItem(pp, ts_by_num, nums[i])])
          : nums \in {SortedNumbers(DOMAIN pp)}, ts_by_num \in {TsByNum(feed_items)} } : TRUE

\* the page files when the write phase begins (lines 505-506, 630)
DiskStart(html) ==
    [html |-> html, writes |-> <<>>, pages_written |-> 0, pages_unchanged |-> 0,
     rendered |-> <<>>]

\* lines 633-645
RenderedPage(pp, num, overall_total_pages, log_items) ==
    _render_page_html(num, overall_total_pages, pp[num],
                      IF num > 1 THEN CommandAt(pp, num - 1) ELSE None, log_items)

\* lines 646-650
Counted(w, num, html_str) ==
    [w.d EXCEPT !.pages_written = @ + (IF w.wrote THEN 1 ELSE 0),
                !.pages_unchanged = @ + (IF w.wrote THEN 0 ELSE 1),
                !.rendered = Put(@, num, html_str)]

\* one iteration of the loop at line 632 (a bound name stands for the value
\* computed once: html_str, then the result w of write_if_changed)
WritePage(d, pp, num, overall_total_pages, log_items) ==
    CHOOSE d1 \in
        UNION { { Counted(w, num, html_str)
                  : w \in {write_if_changed(d, PageName(num), html_str)} }
                : html_str \in {RenderedPage(pp, num, overall_total_pages, log_items)} } : TRUE

\* the loop at line 632
RECURSIVE WritePages(_, _, _, _, _)
WritePages(d, pp, nums, overall_total_pages, log_items) ==
    IF nums = <<>> THEN d
    ELSE CHOOSE r \in
            { WritePages(d1, pp, Tail(nums), overall_total_pages, log_items)
              : d1 \in {WritePage(d, pp, nums[1], overall_total_pages, log_items)} } : TRUE

\* lines 652-655
Stitch(d, has_new_pages, new_start, overall_total_pages) ==
    IF has_new_pages
    THEN CHOOSE r \in
            { _ensure_next_link(d1, new_start,
                                IF overall_total_pages >= new_start + 1
                                THEN new_start + 1 ELSE new_start)
              : d1 \in {_linkify_previous_page(d, new_start - 1)} } : TRUE
    ELSE d

\* How a run ended and what it left: `raised` is the exception that ended it.
Ended(pb, d, pp, new_start, overall_total_pages, raised) ==
    [html |-> d.html, files |-> pb.files,
     images_cache |-> pb.images_cache, videos_cache |-> pb.videos_cache,
     published |-> DOMAIN pp, new_start |-> new_start, total |-> overall_total_pages,
     pages_written |-> d.pages_written, pages_unchanged |-> d.pages_unchanged,
     writes |-> d.writes, rendered |-> d.rendered, raised |-> raised]

\* lines 657-679: 1.html is read and copied to index.html, then render_atom is
\* called with keyword arguments it does not take (page_offset,
\* existing_entries, existing_updated), which raises TypeError
IndexAndFeed(pb, d, pp, new_start, overall_total_pages) ==
    IF IsNone(ReadText(d, PageName(1)))
    THEN Ended(pb, d, pp, new_start, overall_total_pages, "FileNotFoundError")
    ELSE Ended(pb, write_if_changed(d, IndexName, Val(ReadText(d, PageName(1)))).d,
               pp, new_start, overall_total_pages, "TypeError")

\* lines 630-655: the page files after the pages are written and stitched
WrittenAndStitched(html, pp, log_items, new_start, overall_total_pages, has_new_pages) ==
    CHOOSE r \in
        { Stitch(d, has_new_pages, new_start, overall_total_pages)
          : d \in {WritePages(DiskStart(html), pp, SortedNumbers(DOMAIN pp),
                              overall_total_pages, log_items)} } : TRUE

\* lines 597-679 for the processed pages pp
WritePhase(pb, html, pp, new_start, overall_total_pages, has_new_pages) ==
    IF pp = <<>>
    THEN Ended(pb, DiskStart(html), pp, new_start, overall_total_pages, "TypeError")
    ELSE CHOOSE r \in
            UNION { { IndexAndFeed(pb, d, pp, new_start, overall_total_pages)
                      : d \in {WrittenAndStitched(html, pp, log_items, new_start,
                                                  overall_total_pages, has_new_pages)} }
                    : log_items \in {RebuiltLog(pp, pb.feed_items)} } : TRUE

\* lines 569-679
Finish(pb, html, cfg, new_start, overall_total_pages, has_new_pages) ==
    CHOOSE r \in
        { WritePhase(pb, html, pp, new_start, overall_total_pages, has_new_pages)
          : pp \in {ManualShift(pb.processed_pages, cfg, new_start, overall_total_pages,
                                has_new_pages)} } : TRUE

\* lines 497-679 for the page lists of the two sources
RunPages(out, cfg, pages_old, pages_new, new_start, limit_bytes, answers) ==
    { Finish(pb, out.html, cfg, new_start, new_start - 1 + Len(pages_new), pages_new # <<>>)
      : pb \in ProcessBlocks(ProcessStart(out.files, out.images_cache, out.videos_cache),
                             << [pages |-> pages_old, start_number |-> 1],
                                [pages |-> pages_new, start_number |-> new_start] >>,
                             limit_bytes, answers) }

\* regenerate_site_from_channel once the histories are fetched: the set of
\* possible ends.  out is the output directory [html, files, images_cache,
\* videos_cache].
regenerate_site_from_channel(out, cfg, msgs_old, msgs_new, replacements, allowed, limit_bytes, answers) ==
    UNION { RunPages(out, cfg, TrimOld(pages[1], cfg.page_offset), pages[2],
                     BaseOldCount(TrimOld(pages[1], cfg.page_offset), cfg.page_offset) + 1,
                     limit_bytes, answers)
            : pages \in { [i \in 1..2 |-> PagesOf(<<msgs_old, msgs_new>>[i],
                                                  replacements, allowed)] } }

-----------------------------------------------------------------------------
(* The publisher as a state machine: messages are posted to and deleted     *)
(* from the two channels, and each run is one step.                         *)

MaxRuns == 2
MaxHistory == 2

Channels == {"old", "new"}

\* the messages that may be posted to each channel
Posts ==
    [c \in Channels |->
        IF c = "old"
        THEN { [author |-> 1, content |-> "hello", attachments |-> NoAttachments,
                embeds |-> NoEmbeds],
               [author |-> 1, content |-> "> go north", attachments |-> NoAttachments,
                embeds |-> NoEmbeds] }
        ELSE { [author |-> 1, content |-> "> look", attachments |-> NoAttachments,
                embeds |-> NoEmbeds] }]

\* PAGE_OFFSET is 0 (off) or the page count the old source is declared to have
MaxPageOffset == 2

\* the configurations a deployment may run with
Configs ==
    { [page_offset |-> o, manual_command_shift |-> DefaultConfig.manual_command_shift,
       manual_command_shift_start_page |-> DefaultConfig.manual_command_shift_start_page]
      : o \in 0..MaxPageOffset }

\* message i of a channel's history; the old channel's messages are older
Timestamp(c, i) == IF c = "old" THEN i ELSE MaxHistory + 1 + i

PubStart ==
    /\ WriteIdle
    /\ FeedIdle
    /\ SegIdle
    /\ CacheIdle
    /\ ClientIdle
    /\ config \in Configs
    /\ history = [c \in Channels |-> <<>>]
    /\ html_files = <<>>
    /\ runs = <<>>

PostMessage ==
    /\ Len(runs) < MaxRuns
    /\ \E c \in Channels :
         \E m \in Posts[c] :
            /\ Len(history[c]) < MaxHistory
            /\ history' = [history EXCEPT
                              ![c] = Append(@, Delivered(m, Timestamp(c, Len(history[c]) + 1)))]
    /\ UNCHANGED <<config, html_files, runs, media_files, images_cache, videos_cache,
                   allowed_user_ids, shill_replacements>>
    /\ UNCHANGED notPubVars

DeleteMessage ==
    /\ Len(runs) < MaxRuns
    /\ \E c \in Channels :
         /\ history[c] # <<>>
         /\ history' = [history EXCEPT ![c] = SubSeq(@, 1, Len(@) - 1)]
    /\ UNCHANGED <<config, html_files, runs, media_files, images_cache, videos_cache,
                   allowed_user_ids, shill_replacements>>
    /\ UNCHANGED notPubVars

OutDir == [html |-> html_files, files |-> media_files,
           images_cache |-> images_cache, videos_cache |-> videos_cache]

\* what a run was given and how it ended
RunRecord(msgs_old, msgs_new, unreachable, r) ==
    [msgs_old |-> msgs_old, msgs_new |-> msgs_new, unreachable |-> unreachable,
     html_before |-> html_files, cache_before |-> <<images_cache, videos_cache>>,
     skipped |-> FALSE,
     published |-> r.published, new_start |-> r.new_start, total |-> r.total,
     pages_written |-> r.pages_written, pages_unchanged |-> r.pages_unchanged,
     writes |-> r.writes, rendered |-> r.rendered, raised |-> r.raised]

\* lines 436-440: neither channel is among chans
SkippedRecord ==
    [msgs_old |-> <<>>, msgs_new |-> <<>>, unreachable |-> TRUE,
     html_before |-> html_files, cache_before |-> <<images_cache, videos_cache>>,
     skipped |-> TRUE,
     published |-> {}, new_start |-> 0, total |-> 0,
     pages_written |-> 0, pages_unchanged |-> 0,
     writes |-> <<>>, rendered |-> <<>>, raised |-> ""]

\* lines 458-469: a channel that is not visible, or whose history fetch
\* raises, contributes no messages
Fetched(c, chans, failed) == IF c \in chans \ failed THEN history[c] ELSE <<>>

\* a tracked channel is not among chans, or the fetch of one raised
Unreachable(chans, failed) == chans # Channels \/ failed # {}

Regenerate ==
    /\ Len(runs) < MaxRuns
    /\ \E chans \in SUBSET Channels \ {{}} :
         \E failed \in SUBSET chans :
            \E r \in regenerate_site_from_channel(
                        OutDir, config, Fetched("old", chans, failed),
                        Fetched("new", chans, failed), shill_replacements,
                        allowed_user_ids, LimitBytes, Answers) :
               /\ html_files' = r.html
               /\ media_files' = r.files
               /\ images_cache' = r.images_cache
               /\ videos_cache' = r.videos_cache
               /\ runs' = Append(runs, RunRecord(Fetched("old", chans, failed),
                                                 Fetched("new", chans, failed),
                                                 Unreachable(chans, failed), r))
    /\ UNCHANGED <<config, history, allowed_user_ids, shill_replacements>>
    /\ UNCHANGED notPubVars

RegenerateSkipped ==
    /\ Len(runs) < MaxRuns
    /\ runs' = Append(runs, SkippedRecord)
    /\ UNCHANGED <<config, history, html_files, media_files, images_cache, videos_cache,
                   allowed_user_ids, shill_replacements>>
    /\ UNCHANGED notPubVars

PubNext == PostMessage \/ DeleteMessage \/ Regenerate \/ RegenerateSkipped

SpecPub == PubStart /\ [][PubNext]_vars

-----------------------------------------------------------------------------
(* Claims about the publisher, checked under SpecPub.                       *)

LastRun == runs[Len(runs)]

\* run i was given the messages run i-1 was given, and both went through the
\* page-writing phase
SameInputAsBefore(i) ==
    /\ ~runs[i].skipped /\ ~runs[i - 1].skipped
    /\ runs[i].msgs_old = runs[i - 1].msgs_old
    /\ runs[i].msgs_new = runs[i - 1].msgs_new

PageWrites(run) == { k \in 1..Len(run.writes) : run.writes[k].name # IndexName }

PageFilesOnDisk == DOMAIN html_files \ {IndexName}

\* C5: a run on the messages and configuration of the run before it writes no
\* page file and counts every page it rendered as unchanged.
C5_SecondRunWritesNothing ==
    \A i \in 2..Len(runs) :
        SameInputAsBefore(i) =>
            /\ PageWrites(runs[i]) = {}
            /\ runs[i].pages_written = 0
            /\ runs[i].pages_unchanged = Cardinality(runs[i].published)

\* C7: the page numbers a run publishes are exactly 1..total, total being the
\* page count rendered into its pages.
C7_DenseNumbering ==
    \A i \in 1..Len(runs) :
        (~runs[i].skipped /\ runs[i].published # {}) =>
            runs[i].published = 1..runs[i].total

\* C8: after a run that published pages and went through the page-writing
\* phase, every page file {N}.html of the output directory has 1 <= N <= total.
C8_NoStrayPages ==
    (runs # <<>> /\ ~LastRun.skipped /\ LastRun.published # {}) =>
        PageFilesOnDisk \subseteq { PageName(n) : n \in 1..LastRun.total }

\* write k of the run replaced the file of a page it published, whose
\* rendered content was on disk when the run began, by the same bytes
IdenticalWrite(run, k) ==
    /\ run.writes[k].old = Some(run.writes[k].new)
    /\ run.writes[k].name \in DOMAIN run.html_before
    /\ run.html_before[run.writes[k].name] = run.writes[k].new
    /\ \E n \in run.published :
          /\ run.writes[k].name = PageName(n)
          /\ run.rendered[n] = run.writes[k].new

\* C9: during a run no write is performed on a page file whose content for
\* the run is byte-identical to what is already on disk.
C9_NoIdenticalWrite ==
    \A i \in 1..Len(runs) :
        \A k \in PageWrites(runs[i]) : ~IdenticalWrite(runs[i], k)

\* C10: after the page-writing phase of a run that published at least one
\* page, index.html exists and equals the content of 1.html that the run
\* produced.
C10_IndexIsPageOne ==
    (runs # <<>> /\ ~LastRun.skipped /\ LastRun.published # {}) =>
        /\ 1 \in LastRun.published
        /\ IndexName \in DOMAIN html_files
        /\ PageName(1) \in DOMAIN html_files
        /\ html_files[IndexName] = html_files[PageName(1)]


\* the content of the pages of a list: everything but the timestamps
PageContents(pages) ==
    [k \in 1..Len(pages) |->
        [images |-> pages[k].images, videos |-> pages[k].videos,
         paragraphs |-> pages[k].paragraphs, command_text |-> pages[k].command_text]]

\* lines 471-482 on the messages of run i: each source segmented on its own,
\* the new pages following the old ones
JoinedPages(i) ==
    PagesOf(runs[i].msgs_old, shill_replacements, allowed_user_ids)
        \o PagesOf(runs[i].msgs_new, shill_replacements, allowed_user_ids)

\* the old messages followed by the new ones, segmented in one pass
OnePassPages(i) ==
    PagesOf(runs[i].msgs_old \o runs[i].msgs_new, shill_replacements, allowed_user_ids)

\* C16: a run during which a history fetch failed or a tracked channel was not
\* visible is skipped and leaves every page file, index.html and both cache
\* mappings as they were.
C16_UnreachableRunSkipped ==
    \A i \in 1..Len(runs) :
        runs[i].unreachable =>
            /\ runs[i].skipped
            /\ (i = Len(runs) =>
                   /\ html_files = runs[i].html_before
                   /\ <<images_cache, videos_cache>> = runs[i].cache_before)

\* C18: every run that was not skipped ends by returning, having written
\* atom.xml.
C18_RunWritesFeed ==
    \A i \in 1..Len(runs) :
        ~runs[i].skipped =>
            /\ runs[i].raised = ""
            /\ (i = Len(runs) => "atom.xml" \in DOMAIN html_files)

\* run i published pages of the old and of the new source
BothSourcesPublished(i) ==
    /\ ~runs[i].skipped
    /\ \E n \in runs[i].published : n < runs[i].new_start
    /\ \E n \in runs[i].published : n >= runs[i].new_start

\* C29: after a run that published pages of both sources, page new_start-1 is
\* on disk and its command link leads to page new_start.
C29_BoundaryLinked ==
    (Len(runs) >= 1 /\ BothSourcesPublished(Len(runs)))
    => /\ PageName(LastRun.new_start - 1) \in DOMAIN html_files
       /\ html_files[PageName(LastRun.new_start - 1)].commands.kind = "link"
       /\ html_files[PageName(LastRun.new_start - 1)].commands.href = LastRun.new_start

\* C39: in the page files left by a run that published pages, page N's
\* go-back link leads to N-1 (to 1 on page 1), and a command link leads to
\* N+1, which is at most the total and a page the run published, never to the
\* page itself.
C39_LinksInRange ==
    (runs # <<>> /\ ~LastRun.skipped /\ LastRun.published # {})
    => \A n \in LastRun.published :
          PageName(n) \in DOMAIN html_files
          => /\ html_files[PageName(n)].go_back_href = IF n > 1 THEN n - 1 ELSE 1
             /\ html_files[PageName(n)].commands.kind = "link"
                => /\ html_files[PageName(n)].commands.href = n + 1
                   /\ n + 1 <= LastRun.total
                   /\ html_files[PageName(n)].commands.href \in LastRun.published

\* C15: with no page offset, the pages a run gets by segmenting the old and
\* the new source separately have the contents of the pages of one pass over
\* the old messages followed by the new ones.
C15_JoinIsOnePass ==
    \A i \in 1..Len(runs) :
        (~runs[i].skipped /\ config.page_offset = 0) =>
            PageContents(JoinedPages(i)) = PageContents(OnePassPages(i))

-----------------------------------------------------------------------------
(* discord_core.MirrorClient: every event starts its handler as a task of   *)
(* the event loop; a task runs until its next await, where the loop may     *)
(* run another task.  regen_callable is regenerate_site_from_channel with   *)
(* the configuration bound.                                                 *)

MaxTasks == 2

\* a channel the client does not track
OtherChannel == "other"

\* self.channel_ids
channel_ids == Channels

\* a handler's coroutine: the channel of its event (None for an event without
\* one), where it is suspended, the channels it fetched, the history it read
\* so far, how often it called self._regen, which of the runs log is its
\* run (0: none), and the tasks that held an older reading of the old
\* channel's history when this one read it
Task(handler, channel, pc) ==
    [handler |-> handler, channel |-> channel, pc |-> pc, chans |-> {},
     msgs_old |-> <<>>, regens |-> 0, run |-> 0, newer_than |-> {}]

\* a task is inside regenerate_site_from_channel
InRegenerate(t) == t.pc \in {"history_old", "history_new"}

ClientStart ==
    /\ WriteIdle
    /\ FeedIdle
    /\ SegIdle
    /\ CacheIdle
    /\ PubIdle
    /\ client \in [exit_after_regen : BOOLEAN, closed : {FALSE}]
    /\ tasks = <<>>

CanDispatch == ~client.closed /\ Len(tasks) < MaxTasks

\* a variant of the handlers without the test on the event's channel
StartedUnfiltered(handler, c) == Task(handler, Some(c), "fetch_channels")

\* the handlers that filter on the event's channel (lines 89-110) return at
\* once for a channel outside channel_ids
Started(handler, c) ==
    Task(handler, Some(c), IF c \in channel_ids THEN "fetch_channels" ELSE "returned")

on_ready ==
    /\ CanDispatch
    /\ \A i \in 1..Len(tasks) : tasks[i].handler # "on_ready"
    /\ tasks' = Append(tasks, Task("on_ready", None, "change_presence"))
    /\ UNCHANGED <<client, history, html_files, runs, media_files, images_cache, videos_cache>>
    /\ UNCHANGED notClientVars

\* on_ready, lines 73-78: change_presence returned or raised
ChangePresence ==
    /\ \E t \in 1..Len(tasks) :
         /\ tasks[t].pc = "change_presence"
         /\ tasks' = [tasks EXCEPT ![t].pc = "fetch_channels"]
    /\ UNCHANGED <<client, history, html_files, runs, media_files, images_cache, videos_cache>>
    /\ UNCHANGED notClientVars

\* a message is posted to channel c
on_message ==
    /\ CanDispatch
    /\ \E c \in channel_ids \cup {OtherChannel} :
         /\ tasks' = Append(tasks, Started("on_message", c))
         /\ IF c \in channel_ids
            THEN \E m \in Posts[c] :
                    /\ Len(history[c]) < MaxHistory
                    /\ history' = [history EXCEPT
                          ![c] = Append(@, Delivered(m, Timestamp(c, Len(history[c]) + 1)))]
            ELSE UNCHANGED history
    /\ UNCHANGED <<client, html_files, runs, media_files, images_cache, videos_cache>>
    /\ UNCHANGED notClientVars

\* the last message of channel c is deleted
on_message_delete ==
    /\ CanDispatch
    /\ \E c \in channel_ids \cup {OtherChannel} :
         /\ tasks' = Append(tasks, Started("on_message_delete", c))
         /\ IF c \in channel_ids
            THEN /\ history[c] # <<>>
                 /\ history' = [history EXCEPT ![c] = SubSeq(@, 1, Len(@) - 1)]
            ELSE UNCHANGED history
    /\ UNCHANGED <<client, html_files, runs, media_files, images_cache, videos_cache>>
    /\ UNCHANGED notClientVars

\* a message of channel c is edited (the edit itself is not modelled)
on_message_edit ==
    /\ CanDispatch
    /\ \E c \in channel_ids \cup {OtherChannel} :
         /\ c \in channel_ids => history[c] # <<>>
         /\ tasks' = Append(tasks, Started("on_message_edit", c))
    /\ UNCHANGED <<client, history, html_files, runs, media_files, images_cache, videos_cache>>
    /\ UNCHANGED notClientVars

on_guild_channel_update ==
    /\ CanDispatch
    /\ \E c \in channel_ids \cup {OtherChannel} :
         tasks' = Append(tasks, Started("on_guild_channel_update", c))
    /\ UNCHANGED <<client, history, html_files, runs, media_files, images_cache, videos_cache>>
    /\ UNCHANGED notClientVars

on_guild_role_update ==
    /\ CanDispatch
    /\ tasks' = Append(tasks, Task("on_guild_role_update", None, "fetch_channels"))
    /\ UNCHANGED <<client, history, html_files, runs, media_files, images_cache, videos_cache>>
    /\ UNCHANGED notClientVars

\* on_ready closes the client after its work when exit_after_regen is set
\* (lines 81-87)
ClosedAfter(t) ==
    [client EXCEPT !.closed = @ \/ (tasks[t].handler = "on_ready" /\ client.exit_after_regen)]

\* _fetch_visible_channels returned for task t: each fetch_channel may have
\* raised.  Without a channel the handler returns; otherwise it calls
\* self._regen, which runs up to the first history fetch.
FetchVisibleChannels ==
    /\ \E t \in 1..Len(tasks) :
         /\ tasks[t].pc = "fetch_channels"
         /\ \E chans \in SUBSET channel_ids :
              IF chans = {}
              THEN /\ tasks' = [tasks EXCEPT ![t].pc = "returned"]
                   /\ client' = ClosedAfter(t)
              ELSE /\ tasks' = [tasks EXCEPT
                                   ![t].pc = IF "old" \in chans THEN "history_old"
                                             ELSE "history_new",
                                   ![t].chans = chans,
                                   ![t].regens = @ + 1]
                   /\ UNCHANGED client
    /\ UNCHANGED <<history, html_files, runs, media_files, images_cache, videos_cache>>
    /\ UNCHANGED notClientVars

\* what a history fetch may give: the channel's messages, or none when it
\* raised (lines 460-469)
HistoryOf(c) == {history[c], <<>>}

\* the tasks suspended inside a run with a reading of the old channel that
\* the reading msgs_old, made now by task t, supersedes: both found messages,
\* and the channel has changed since theirs
OlderReaders(t, msgs_old) ==
    { a \in 1..Len(tasks) \ {t} :
         /\ tasks[a].pc = "history_new"
         /\ msgs_old = history["old"]
         /\ msgs_old # <<>>
         /\ tasks[a].msgs_old # <<>>
         /\ tasks[a].msgs_old # msgs_old }

\* The run of task t goes from its last history fetch to its end without an
\* await: the pages are published and the task ends, by the exception that
\* ended the run or by returning.  (A fetch that raised is not told apart here
\* from an empty history; the record notes the channels that were not visible.)
RunToEnd(t, msgs_old, msgs_new) ==
    \E r \in regenerate_site_from_channel(OutDir, config, msgs_old, msgs_new,
                                          shill_replacements, allowed_user_ids,
                                          LimitBytes, Answers) :
       /\ html_files' = r.html
       /\ media_files' = r.files
       /\ images_cache' = r.images_cache
       /\ videos_cache' = r.videos_cache
       /\ runs' = Append(runs, RunRecord(msgs_old, msgs_new,
                                         Unreachable(tasks[t].chans, {}), r))
       /\ tasks' = [tasks EXCEPT ![t].pc = IF r.raised = "" THEN "returned" ELSE "raised",
                                  ![t].msgs_old = <<>>,
                                  ![t].run = Len(runs) + 1]
       /\ client' = IF r.raised = "" THEN ClosedAfter(t) ELSE client

\* The history fetch task t awaits ended.  After the old channel's fetch the
\* new channel's follows when that channel is visible; after the last fetch
\* the run goes on to its end.
FetchHistory ==
    /\ \E t \in 1..Len(tasks) :
         /\ InRegenerate(tasks[t])
         /\ IF tasks[t].pc = "history_old"
            THEN \E msgs_old \in HistoryOf("old") :
                    IF "new" \in tasks[t].chans
                    THEN /\ tasks' = [tasks EXCEPT ![t].pc = "history_new",
                                                   ![t].msgs_old = msgs_old,
                                                   ![t].newer_than = OlderReaders(t, msgs_old)]
                         /\ UNCHANGED <<client, html_files, runs, media_files, images_cache,
                                        videos_cache>>
                    ELSE RunToEnd(t, msgs_old, <<>>)
            ELSE \E msgs_new \in HistoryOf("new") :
                    RunToEnd(t, tasks[t].msgs_old, msgs_new)
    /\ UNCHANGED history
    /\ UNCHANGED notClientVars

ClientNext ==
    \/ on_ready
    \/ ChangePresence
    \/ on_message
    \/ on_message_delete
    \/ on_message_edit
    \/ on_guild_channel_update
    \/ on_guild_role_update
    \/ FetchVisibleChannels
    \/ FetchHistory

SpecClient == ClientStart /\ [][ClientNext]_vars

-----------------------------------------------------------------------------
(* Claims about the client, checked under SpecClient.                       *)

RunsInProgress == { t \in 1..Len(tasks) : InRegenerate(tasks[t]) }

\* C6: at most one regenerate run is in progress at any time.
C6_OneRunAtATime == Cardinality(RunsInProgress) <= 1

\* the handlers of the live events: message create, edit and delete, channel
\* update, role update
EventHandlers ==
    {"on_message", "on_message_edit", "on_message_delete", "on_guild_channel_update",
     "on_guild_role_update"}

\* the handler of task k has ended
Finished(k) == k.pc \in {"returned", "raised"}

\* the event of task k is for a channel outside the tracked set
Untracked(k) == k.channel # None /\ Val(k.channel) \notin channel_ids

\* how often the handler of task k is to call regenerate: never for an event
\* of an untracked channel, once when a tracked channel could be fetched
RegensDue(k) == IF Untracked(k) \/ k.chans = {} THEN 0 ELSE 1

\* C31: an event for a channel outside the tracked set never invokes
\* regenerate; an event for a tracked channel, and any role update, invokes
\* it exactly once when a tracked channel could be fetched and never when
\* none could; a handler that has ended left a run in the log exactly when
\* it invoked regenerate.
C31_EventsRegenerateOnce ==
    \A t \in 1..Len(tasks) :
       tasks[t].handler \in EventHandlers =>
          /\ tasks[t].regens = RegensDue(tasks[t])
          /\ Untracked(tasks[t]) => tasks[t].chans = {} /\ tasks[t].run = 0
          /\ tasks[t].handler = "on_guild_role_update" => tasks[t].channel = None
          /\ Finished(tasks[t]) => (tasks[t].run # 0) = (tasks[t].regens = 1)
          /\ tasks[t].run # 0 => tasks[t].run \in 1..Len(runs)

\* a message event of an untracked channel ended without a run, and a role
\* update that could fetch a channel ended with its one run
C31_Witness ==
    /\ Len(tasks) = 2
    /\ tasks[1].handler = "on_message" /\ Untracked(tasks[1])
    /\ tasks[2].handler = "on_guild_role_update"
    /\ Finished(tasks[2]) /\ tasks[2].regens = 1 /\ tasks[2].run = 1

\* the run of task a wrote pages from a reading of the old channel that was
\* out of date when task b made its own, both runs having read the same
\* messages of the new channel
ReadOlderThan(a, b) ==
    /\ a \in tasks[b].newer_than
    /\ tasks[a].run # 0 /\ tasks[b].run # 0
    /\ runs[tasks[a].run].msgs_new = runs[tasks[b].run].msgs_new
    /\ runs[tasks[a].run].writes # <<>>

\* C38: of the runs triggered close together, one that read an older
\* snapshot of the message history does not write its pages after one that
\* read a newer snapshot, so the output directory is left by the run with
\* the newest.
C38_NewestSnapshotWins ==
    \A a, b \in 1..Len(tasks) :
        ReadOlderThan(a, b) => tasks[a].run < tasks[b].run

\* on_ready has ended on a client made with exit_after_regen
ReadyEnded ==
    /\ client.exit_after_regen
    /\ \E t \in 1..Len(tasks) : tasks[t].handler = "on_ready" /\ Finished(tasks[t])

\* C40: with exit_after_regen set, on_ready does not end without closing the
\* client, whether no tracked channel was visible or the regenerate call
\* returned or raised.
C40_ReadyCloses == ReadyEnded => client.closed

-----------------------------------------------------------------------------
(* sitegen.atomic_write step by step: the temporary file is opened, filled  *)
(* and renamed over the target, while a reader may open any file at any     *)
(* instant.  A call has no await in it, so the event loop never runs two    *)
(* calls at once: there is one writer.                                      *)

MaxWrites == 2

\* the files written through atomic_write that readers are served
ServedNames == {PageName(1), IndexName}

\* whole documents handed to atomic_write; none is the beginning of another
WholePages == {"<p>", "<i>"}

\* Path.read_text on a file that may be absent
FileText(files, name) == IF name \in DOMAIN files THEN Some(files[name]) ELSE None

\* a variant that writes into the target itself
TmpPathInPlace(path) == path

\* line 80: path.with_suffix(path.suffix + ".tmp")
TmpPath(path) == path \o ".tmp"

WriteStart ==
    /\ SegIdle
    /\ CacheIdle
    /\ PubIdle
    /\ ClientIdle
    /\ FeedIdle
    /\ disk \in {<<>>} \cup { [n \in {name} |-> c] : name \in ServedNames, c \in WholePages }
    /\ writer = [pc |-> "idle", calls |-> 0]
    /\ reader = <<>>

\* atomic_write(path, data) is entered
Entered(path, data) ==
    [pc |-> "open", calls |-> writer.calls + 1, path |-> path, data |-> data,
     old |-> FileText(disk, path)]

\* write_if_changed (lines 85-94): an absent or different file is replaced
\* through atomic_write, an equal one is left alone
CallWriteIfChanged ==
    /\ writer.pc = "idle" /\ writer.calls < MaxWrites
    /\ \E path \in ServedNames, data \in WholePages :
          IF FileText(disk, path) = Some(data)
          THEN writer' = [pc |-> "idle", calls |-> writer.calls + 1]
          ELSE writer' = Entered(path, data)
    /\ UNCHANGED <<disk, reader>>
    /\ UNCHANGED notWriteVars

\* the stitching helpers call atomic_write directly (lines 337 and 359)
CallAtomicWrite ==
    /\ writer.pc = "idle" /\ writer.calls < MaxWrites
    /\ \E data \in WholePages :
          /\ PageName(1) \in DOMAIN disk
          /\ writer' = Entered(PageName(1), data)
    /\ UNCHANGED <<disk, reader>>
    /\ UNCHANGED notWriteVars

\* line 81, tmp.write_text: the temporary file is created or truncated
TmpOpen ==
    /\ writer.pc = "open"
    /\ disk' = Put(disk, TmpPath(writer.path), "")
    /\ writer' = [writer EXCEPT !.pc = "writing"]
    /\ UNCHANGED reader
    /\ UNCHANGED notWriteVars

\* line 81: some more of the data reaches the temporary file; the file is
\* closed once all of it has
TmpWrite ==
    /\ writer.pc = "writing"
    /\ \E n \in Len(disk[TmpPath(writer.path)]) + 1 .. Len(writer.data) :
          /\ disk' = Put(disk, TmpPath(writer.path), SubSeq(writer.data, 1, n))
          /\ writer' = [writer EXCEPT !.pc = IF n = Len(writer.data)
                                             THEN "written" ELSE "writing"]
    /\ UNCHANGED reader
    /\ UNCHANGED notWriteVars

\* line 81: the write raises (disk full, I/O error) and atomic_write is left
\* with what was written so far
TmpWriteFails ==
    /\ writer.pc = "writing"
    /\ writer' = [pc |-> "idle", calls |-> writer.calls]
    /\ UNCHANGED <<disk, reader>>
    /\ UNCHANGED notWriteVars

\* line 82, tmp.replace(path): one rename
TmpReplace ==
    /\ writer.pc = "written"
    /\ disk' = [n \in (DOMAIN disk \cup {writer.path}) \ {TmpPath(writer.path)}
                  |-> IF n = writer.path THEN disk[TmpPath(writer.path)] ELSE disk[n]]
    /\ writer' = [pc |-> "idle", calls |-> writer.calls]
    /\ UNCHANGED reader
    /\ UNCHANGED notWriteVars

\* somebody opens and reads a served file
ReaderReads ==
    /\ \E name \in ServedNames :
          reader' = [name |-> name, content |-> FileText(disk, name),
                     during |-> IF writer.pc # "idle" /\ writer.path = name
                                THEN {writer.old, Some(writer.data)} ELSE {},
                     midway |-> /\ writer.pc = "writing"
                                /\ disk[TmpPath(writer.path)] # ""]
    /\ UNCHANGED <<disk, writer>>
    /\ UNCHANGED notWriteVars

WriteNext ==
    \/ CallWriteIfChanged
    \/ CallAtomicWrite
    \/ TmpOpen
    \/ TmpWrite
    \/ TmpWriteFails
    \/ TmpReplace
    \/ ReaderReads

SpecWrite == WriteStart /\ [][WriteNext]_vars

\* the reader opened the file that a call of atomic_write was replacing
ReadDuringWrite == reader # <<>> /\ reader.during # {}

\* C11: a reader of a page file or of index.html is given a whole document,
\* and while the file is being replaced it is given either the whole previous
\* content or the whole new content; no served file ever holds part of one.
C11_ReaderSeesWholePage ==
    /\ \A n \in ServedNames \cap DOMAIN disk : disk[n] \in WholePages
    /\ reader # <<>> =>
          /\ reader.content \in {None} \cup { Some(c) : c \in WholePages }
          /\ ReadDuringWrite =>
                reader.content \in reader.during

\* the reader read the old page while part of a different new one was already
\* in the temporary file
C11_Witness ==
    /\ ReadDuringWrite
    /\ reader.midway
    /\ reader.content # None
    /\ Cardinality(reader.during) = 2

-----------------------------------------------------------------------------
(* feeds.py: the feed document, and the sort sitegen.py applies to the feed *)
(* items before it calls render_atom.  An item is [ts, num, page].  The     *)
(* base URL and the site name only prefix links and add an author element;  *)
(* render_atom is modelled with absolute_url and site_name absent.          *)

\* str.split() with no separator: the words between runs of whitespace
RECURSIVE WordsFrom(_, _)
WordsFrom(s, acc) ==
    IF s = "" THEN (IF acc = "" THEN <<>> ELSE <<acc>>)
    ELSE IF IsSpace(Head(s))
         THEN (IF acc = "" THEN <<>> ELSE <<acc>>) \o WordsFrom(Tail(s), "")
         ELSE WordsFrom(Tail(s), acc \o Head(s))

\* s.rfind(c, 0, limit), counted from 1: 0 when c is not in the first `limit`
\* characters
RFind(s, c, limit) ==
    LastIndexOf(SubSeq(s, 1, IF limit < Len(s) THEN limit ELSE Len(s)), c)

\* xml.sax.saxutils.escape
xml_escape(s) ==
    ReplaceAll(ReplaceAll(ReplaceAll(s, "&", "&amp;", FALSE), ">", "&gt;", FALSE),
               "<", "&lt;", FALSE)

\* the default of _summary_from_paragraphs' limit
summary_limit == 400

\* line 24: the first paragraph with its whitespace runs collapsed
Collapsed(paragraphs) == JoinSpace(WordsFrom(paragraphs[1], ""))

\* lines 27-31: how many characters of s are kept (before rstrip)
SummaryCut(s, limit) ==
    IF RFind(s, ".", limit) # 0 THEN RFind(s, ".", limit) - 1
    ELSE IF RFind(s, " ", limit) # 0 THEN RFind(s, " ", limit) - 1
         ELSE limit

\* feeds._summary_from_paragraphs
_summary_from_paragraphs(paragraphs, limit) ==
    IF paragraphs = <<>> THEN ""
    ELSE IF Len(Collapsed(paragraphs)) <= limit THEN Collapsed(paragraphs)
         ELSE RStrip(SubSeq(Collapsed(paragraphs), 1,
                            SummaryCut(Collapsed(paragraphs), limit))) \o "..."

\* feeds._title_for_page: [raised, value]; pages[i - 2] raises IndexError
\* past the end of the list
_title_for_page(i, pages) ==
    IF i = 1 THEN [raised |-> None, value |-> ""]
    ELSE IF i - 1 \in 1..Len(pages)
         THEN [raised |-> None, value |-> Val(OrElse(pages[i - 1].command_text, Some("")))]
         ELSE [raised |-> Some("IndexError"), value |-> ""]

\* datetime.now(): later than every timestamp of a message
Now == 9

\* lines 111-142: the entry of one item
Entry(item, pages, story_title) ==
    [num |-> item.num,
     title |-> xml_escape(IF _title_for_page(item.num, pages).value # ""
                          THEN _title_for_page(item.num, pages).value ELSE story_title),
     link |-> PageName(item.num),
     updated |-> IF IsNone(item.ts) THEN Now ELSE Val(item.ts),
     summary |-> xml_escape(_summary_from_paragraphs(item.page.paragraphs, summary_limit))]

\* feeds.render_atom(story_title, sorted_items, pages, limit): the document
\* as [raised, entries], the entries in the order they are written
render_atom(story_title, sorted_items, pages, limit) ==
    LET items == IF IsNone(limit) \/ Val(limit) >= Len(sorted_items) THEN sorted_items
                 ELSE SubSeq(sorted_items, 1, Val(limit))
    IN IF \E k \in 1..Len(items) : ~IsNone(_title_for_page(items[k].num, pages).raised)
       THEN [call |-> "render_atom", raised |-> Some("IndexError"), entries |-> <<>>]
       ELSE [call |-> "render_atom", raised |-> None,
             entries |-> [k \in 1..Len(items) |-> Entry(items[k], pages, story_title)]]

-----------------------------------------------------------------------------
(* The feed code as a state machine: the items are sorted as sitegen.py     *)
(* sorts them, then handed to render_atom.                                  *)

MaxFeedItems == 3

\* message timestamps
FeedTimestamps == 1..3

\* the processed pages the items carry, and the pages of the `pages` list
ItemPages ==
    { [images |-> <<>>, videos |-> <<>>, paragraphs |-> <<"It is dark.">>,
       command_text |-> None],
      [images |-> <<>>, videos |-> <<>>, paragraphs |-> <<>>,
       command_text |-> Some("look")] }
ListedPages ==
    { [paragraphs |-> <<>>, command_text |-> c] : c \in {None, Some("go")} }

\* the limits render_atom is called with (sitegen.py passes None)
FeedLimits == {None, Some(2)}

\* feed_items as lines 518-566 build them: in ascending page number
ItemsOf(nums, ts_of, page_of) ==
    [k \in 1..Len(nums) |->
        [ts |-> ts_of[nums[k]], num |-> nums[k], page |-> page_of[nums[k]]]]

FeedStart ==
    /\ SegIdle
    /\ CacheIdle
    /\ PubIdle
    /\ ClientIdle
    /\ WriteIdle
    /\ \E S \in SUBSET (1..MaxFeedItems) :
         \E ts_of \in [S -> {None} \cup { Some(t) : t \in FeedTimestamps }],
            page_of \in [S -> ItemPages] :
            atom_items = ItemsOf(SortedNumbers(S), ts_of, page_of)
    /\ atom_pages \in UNION { [1..n -> ListedPages] : n \in 0..(MaxFeedItems - 1) }
    /\ atom = None

\* sitegen.py lines 660-666
SortFeedItems ==
    /\ atom = None
    /\ atom' = Some([call |-> "sort", items |-> SortNewestFirst(atom_items)])
    /\ UNCHANGED <<atom_items, atom_pages>>
    /\ UNCHANGED notFeedVars

\* feeds.render_atom on the sorted items
RenderAtom ==
    /\ atom # None
    /\ Val(atom).call = "sort"
    /\ \E limit \in FeedLimits :
          atom' = Some(render_atom(StoryTitle, Val(atom).items, atom_pages, limit))
    /\ UNCHANGED <<atom_items, atom_pages>>
    /\ UNCHANGED notFeedVars

FeedNext == SortFeedItems \/ RenderAtom

SpecFeed == FeedStart /\ [][FeedNext]_vars

-----------------------------------------------------------------------------
(* Claims about the feed, checked under SpecFeed.                           *)

\* render_atom returned a document
Rendered == atom # None /\ Val(atom).call = "render_atom" /\ IsNone(Val(atom).raised)

Entries == Val(atom).entries

\* the item of page num
ItemOf(num) == atom_items[CHOOSE k \in 1..Len(atom_items) : atom_items[k].num = num]

\* item a is older than item b by (last_timestamp, page_number), no timestamp
\* being older than any timestamp
Older(a, b) ==
    \/ IsNone(a.ts) /\ ~IsNone(b.ts)
    \/ IsNone(a.ts) /\ IsNone(b.ts) /\ a.num < b.num
    \/ ~IsNone(a.ts) /\ ~IsNone(b.ts) /\ Val(a.ts) < Val(b.ts)
    \/ ~IsNone(a.ts) /\ ~IsNone(b.ts) /\ Val(a.ts) = Val(b.ts) /\ a.num < b.num

ListedCommand(n) ==
    IF n \in 1..Len(atom_pages) THEN atom_pages[n].command_text ELSE None

\* the display title of page n: the previous page's command, else its own,
\* else the story title
DisplayTitle(n) ==
    Val(OrElse(ListedCommand(n - 1), OrElse(ItemOf(n).page.command_text, Some(StoryTitle))))

\* C14: the title of the feed entry of page N is the command of page N-1 if
\* it has one, otherwise the command of page N if it has one, otherwise the
\* story title.
C14_EntryTitle ==
    Rendered =>
        \A k \in 1..Len(Entries) :
            Entries[k].title = xml_escape(DisplayTitle(Entries[k].num))

-----------------------------------------------------------------------------
(* feeds._summary_from_paragraphs on its own: the first paragraph is any    *)
(* short text of letters, spaces and periods, the limit any small number.   *)

MaxText == 5
MaxSummaryLimit == 3

SummaryAlphabet == {"a", " ", "."}

RECURSIVE TextsUpTo(_)
TextsUpTo(n) ==
    IF n = 0 THEN {""}
    ELSE LET shorter == TextsUpTo(n - 1)
         IN shorter \cup { t \o c : t \in shorter, c \in SummaryAlphabet }

SummaryStart ==
    /\ SegIdle
    /\ CacheIdle
    /\ PubIdle
    /\ ClientIdle
    /\ WriteIdle
    /\ atom_items = <<>>
    /\ atom_pages \in { << [paragraphs |-> <<t>>, command_text |-> None] >>
                        : t \in TextsUpTo(MaxText) }
    /\ atom = None

Summarise ==
    /\ atom = None
    /\ \E limit \in 1..MaxSummaryLimit :
          atom' = Some([call |-> "summary", limit |-> limit,
                        s |-> Collapsed(atom_pages[1].paragraphs),
                        summary |-> _summary_from_paragraphs(atom_pages[1].paragraphs,
                                                             limit)])
    /\ UNCHANGED <<atom_items, atom_pages>>
    /\ UNCHANGED notFeedVars

SummaryNext == Summarise

SpecSummary == SummaryStart /\ [][SummaryNext]_vars

\* a summary was made of a text longer than the limit
Truncated == atom # None /\ Val(atom).call = "summary" /\ Len(Val(atom).s) > Val(atom).limit

\* the text kept before the ellipsis
Kept == SubSeq(Val(atom).summary, 1, Len(Val(atom).summary) - 3)

InWord(c) == c \notin {" ", "."}

\* the first k characters of t end inside a word
MidWord(t, k) ==
    k >= 1 /\ k < Len(t) /\ InWord(Char(t, k)) /\ InWord(Char(t, k + 1))

\* C20: the summary of a first paragraph longer than the limit keeps at most
\* `limit` characters before the ellipsis and does not end inside a word.
C20_SummaryCutsAtBoundary ==
    Truncated =>
        /\ Val(atom).summary = Kept \o "..."
        /\ Kept = SubSeq(Val(atom).s, 1, Len(Kept))
        /\ Len(Kept) <= Val(atom).limit
        /\ ~MidWord(Val(atom).s, Len(Kept))

-----------------------------------------------------------------------------
(* The manual command shift of sitegen.py (lines 572-595) on its own: the   *)
(* processed pages are any short list of pages with or without a command,   *)
(* and the pass is applied to them and then to its own result.              *)

MaxShiftPages == 3

ShiftCommandTexts == {None, Some("a"), Some("b"), Some("Next.")}

\* MANUAL_COMMAND_SHIFT = -1 with the given start page
ShiftConfig(start_page) ==
    [page_offset |-> 0, manual_command_shift |-> -1,
     manual_command_shift_start_page |-> start_page]

ShiftStart ==
    /\ SegIdle
    /\ CacheIdle
    /\ PubIdle
    /\ ClientIdle
    /\ WriteIdle
    /\ atom_items = <<>>
    /\ atom_pages \in UNION { [1..n -> [command_text : ShiftCommandTexts]]
                              : n \in 1..MaxShiftPages }
    /\ atom = None

\* the pass with pages new_start.. taken from the new source (there are such
\* pages when new_start is not past the last page)
ShiftOnce(pp, start_page, new_start) ==
    ManualShift(pp, ShiftConfig(start_page), new_start, Len(pp), new_start <= Len(pp))

ApplyManualShift ==
    /\ atom = None
    /\ \E start_page \in 1..2, new_start \in 1..(Len(atom_pages) + 1) :
          \E once \in { ShiftOnce(atom_pages, start_page, new_start) } :
             atom' = Some([call |-> "manual_shift", start_page |-> start_page,
                           new_start |-> new_start, once |-> once,
                           twice |-> ShiftOnce(once, start_page, new_start)])
    /\ UNCHANGED <<atom_items, atom_pages>>
    /\ UNCHANGED notFeedVars

ShiftNext == ApplyManualShift

SpecShift == ShiftStart /\ [][ShiftNext]_vars

Shifted == atom # None /\ Val(atom).call = "manual_shift"

\* C28: the pass applied to its own result changes no command, and the pass
\* leaves the pages numbered as they were, none beyond the last.
C28_ShiftIdempotent ==
    Shifted =>
        /\ Val(atom).twice = Val(atom).once
        /\ DOMAIN Val(atom).once = DOMAIN atom_pages

=============================================================================
